---------------------------- MODULE Spec2Model ----------------------------
(***************************************************************************)
(* A model of holland's core: the spool lock, the hook pipeline, the       *)
(* backup lifecycle (execute_backup), purge_set and release of the backup  *)
(* controller, the catalog database, config merge / meld and validation,   *)
(* compression streams, the tar archiver, configspec aliases, the loops    *)
(* of purge_set, replace_symlink and add_node.                             *)
(*                                                                         *)
(* The specifications share the variables:                                 *)
(*   SpecLock      processes racing for one backupset's spool lock         *)
(*   SpecHooks     one backup run with hooks registered besides built-ins  *)
(*   SpecNode      the first backup of a backupset under every option      *)
(*   SpecJob       the job scope and the loop of `holland backup`          *)
(*   Spec          one controller running backups and purges               *)
(*   SpecRelease   release(path) on nodes with any kind of config          *)
(*   SpecCatalog   processes opening one catalog database and querying it  *)
(*   SpecConfig    merge and meld of two parsed configs                    *)
(*   SpecRoundTrip a validated option rendered and validated again         *)
(*   SpecStream    a compression stream opened and closed                  *)
(*   SpecArchive   tar started by the archiver, exiting or killed          *)
(*   SpecAlias     a config with an aliased option validated               *)
(*   SpecPurge     one purge_set call followed node by node                *)
(*   SpecSymlink   replace_symlink on the links of a backupset             *)
(*   SpecAddNode   add_node as time passes and directories appear          *)
(*   SpecConcurrent  backups while another process calls purge_set         *)
(***************************************************************************)
EXTENDS Integers, Sequences, FiniteSets, TLC

\* ------------------------------------------------------------------ bounds
\* number of processes that call spool.lock on the same backupset
NumProcs == 2
\* depth to which one process nests lock(name) inside its own lock(name)
MaxNesting == 1
\* number of backups the controller runs on the backupset
MaxBackups == 2
\* largest retention-count drawn for a backupset config or a purge
MaxRetention == 2
\* number of hooks registered besides the built-in ones
MaxExtraHooks == 2
\* number of backupsets one `holland backup` command is given
MaxBackupsets == 3
\* number of job() scopes one controller opens, one after the other
MaxJobs == 2
\* number of release(path) calls made on the nodes of a backupset
MaxReleases == 2
\* number of load_catalog calls one process makes on the same database
MaxOpens == 2
\* number of Backup rows saved to the catalog database
MaxRows == 3
\* number of distinct keys at the top of a config
MaxKeys == 2
\* number of distinct option names under a section of a config
MaxOptions == 1
\* number of times a validated config is rendered, parsed and validated again
MaxTrips == 2
\* number of lines an external process writes to its stderr
MaxStderr == 2
\* number of times a stream is closed
MaxCloses == 2
\* the largest signal number (signum_to_name's last key)
MaxSignal == 64
\* number of options a config validated against a configspec supplies
MaxSupplied == 3
\* number of purge_set calls another process makes while backups run
MaxOtherPurges == 1
\* number of nodes of the backupset a purge_set call is followed through
MaxPurgeNodes == 3
\* number of replace_symlink calls made on the links of a backupset
MaxLinkCalls == 3
\* number of seconds of wall-clock time add_node is called in
MaxSeconds == 2

VARIABLES
    \* --- spool.lock, one entry per process
    lpc,          \* position of each process in BackupSpool.lock
    lockFile,     \* content of <backupset>/.holland/lock: 0 is empty, else a pid
    flockHolder,  \* process holding the flock on the lock file, 0 for none
    locked,       \* each process's spool.locked[namespace]
    lerr,         \* <<pid>> carried by the SpoolLockError a process raised, else <<>>
    ldepth,       \* number of nested lock(name) scopes each process is inside
    lexit,        \* history: how each process left its last outer lock scope
    lheld,        \* history: who held the flock when the process's flock failed
    \* --- hook registry and executor
    registry,     \* hook_registry.registry['holland.backup.hooks'], in dict order
    regclock,     \* history: number of register() calls so far
    hooks,        \* HookExecutor.hooks
    called,       \* history: per dispatched event, the hooks it invoked, in order
    \* --- execute_backup
    pc,           \* position of the controller in the lifecycle: the event or
                  \* plugin call that comes next
    events,       \* history: events dispatched for the current backup
    exc,          \* exception in flight inside execute_backup
    origExc,      \* history: exception caught by `except BaseException`
    raised,       \* exception that left execute_backup
    message,      \* backup.message of the current backup
    cleaned,      \* plugin.cleanup() was called for the current backup
    stopped,      \* backup.stop_time is set
    run,          \* the current backup: [dryrun, policy, retention]
    steady,       \* history: every backup so far was a non-dry-run backup with
                  \* retention-count 2 and purge-policy after-backup that
                  \* returned, and nothing else purged the backupset
    \* --- spool and catalog of the backupset
    cur,          \* node of the current (latest) backup, 0 before the first
    nodes,        \* node directories that exist
    timestamps,   \* content of each node's .holland/timestamp
    oldest,       \* target of the `oldest` symlink, 0 when absent
    newest,       \* target of the `newest` symlink, 0 when absent
    catalog,      \* status of the Backup row of each node
    lastPurge,    \* history: arguments and result of the last purge_set call
    before,       \* history: nodes and symlinks when the current backup began
    files,        \* version of each file under the current node, 0 when absent
    sums,         \* version of each file an entry of .holland/checksums is of
    committed,    \* status of the Backup row of each node as last committed
    commitMsg,    \* message of the current backup's row as last committed
    commitHeld,   \* history: the spool lock was held at the commit that ended
                  \* catalog.save(backup)
    \* --- controller.job and the loop of `holland backup`
    jpc,          \* position in Backup.execute / BackupController.job
    jobs,         \* controller.jobs, the job stack
    jobsBefore,   \* history: controller.jobs when job() was called
    jcount,       \* history: number of job() calls so far
    stopTime,     \* job.stop_time of the current job is set
    requested,    \* namespace.backupset, the backupsets asked for
    attempted,    \* history: the backupsets tried so far, with their outcome
    jerr,         \* what left the `with controller.job()` statement
    \* --- controller.release
    configOf,     \* what reading each node's .holland/config gives
    rpc,          \* position of the controller in release(path)
    rpath,        \* the path release() was called with
    ctxDir,       \* backup.backup_directory of the context release() built
    boundDir,     \* backup_directory of the context plugin.bind() was given
    relCalls,     \* history: plugin.release() calls made by this release(path)
    relDir,       \* history: backup_directory plugin.release() saw
    rerr,         \* the step of release(path) that raised
    rdone,        \* history: number of release(path) calls made
    \* --- the catalog database, shared by the processes that open it
    schemaRows,   \* number of rows of the schema_version table
    cpc,          \* position of each process in load_catalog
    csaw,         \* what each process's query for a SchemaVersion row returned
    copens,       \* history: number of load_catalog calls of each process
    backupRows,   \* start_time of each row of the backup table, by id
    lastQuery,    \* history: the last previous_backup / next_backup call, with
                  \* the rows it ran on
    \* --- Config.merge / Config.meld
    cfgA,         \* the config merged or melded into, as parsed
    cfgB,         \* the config merged or melded from, as parsed
    cfgOp,        \* the operation applied: merge or meld
    cfgOut,       \* op(a, b): the exception raised, if any, and a afterwards
    cfgAgain,     \* op(a, op(a, b))
    \* --- a validated option rendered to text and validated again
    rtpc,         \* position in the round trip
    rtCheck,      \* the check the configspec has for the option
    rtText,       \* the option's text in the config that was validated first
    rtValue,      \* the value the first validation gave
    rtCur,        \* the value the latest validation gave
    rtLine,       \* the line Config.__str__ rendered for the latest value
    rtTrips,      \* number of round trips made
    \* --- a compression stream and its external process
    strMode,      \* "none" before the stream is opened, then "r" or "w"
    strProc,      \* "none", "running" or "exited"
    strExit,      \* the process's return code once it exited
    strErr,       \* the lines the process wrote to its stderr
    strLog,       \* the lines close() logged
    strClosed,    \* self.closed
    strRaised,    \* what each call of close() raised, in order
    \* --- the tar archiver
    tarpc,        \* "idle", "running" (Popen done, in wait) or "done"
    tarRet,       \* retcode
    tarErr,       \* the lines tar wrote to archive.log
    tarLog,       \* the lines archive() logged at error level
    tarRaised,    \* what archive() raised
    \* --- Configspec.validate on a config with an aliased option
    alpc,         \* "build" while the config is parsed, then "done"
    alCfg,        \* the config
    alSpec,       \* the configspec it was validated against
    alSupplied,   \* history: the config as it was before validate
    \* --- the loops of one purge_set call
    pgpc,         \* "idle", "purging" (in the last loop) or "done"
    pgArgs,       \* the call: retention, dry_run, exclude, and the nodes whose
                  \* release will raise
    pgStatus,     \* status of the backup of each node
    pgCand,       \* candidates
    pgKept,       \* kept_backups
    pgIdx,        \* position of the last loop in candidates
    pgNodes,      \* node directories that exist
    pgLog,        \* history: the calls and log lines of the last loop
    \* --- replace_symlink
    lnpc,         \* "idle", "linked" (the temporary link is made), "raised"
    lnLinks,      \* target of the `oldest` and `newest` links, 0 when absent
    lnTmp,        \* target of the temporary link, 0 when absent
    lnCall,       \* the call: link_name, source, and the link's target before
    lnCount,      \* history: number of replace_symlink calls so far
    \* --- BackupSpool.add_node
    anDirs,       \* the directories that exist under the spool
    anClock,      \* datetime.now(), in seconds
    anLast,       \* history: the last add_node call and how it ended
    \* --- purge_set called by another process while a backup runs
    otherPurge,   \* history: the call and what it did
    otherPurges   \* history: number of such calls so far

lockVars == <<lpc, lockFile, flockHolder, locked, lerr, lheld, ldepth, lexit>>
hookVars == <<registry, regclock, hooks, called>>
lifeVars == <<pc, events, exc, origExc, raised, message, cleaned, stopped, run,
             steady>>
spoolVars == <<cur, nodes, timestamps, oldest, newest, catalog, lastPurge, before,
              files, sums, committed, commitMsg, commitHeld>>
jobVars == <<jpc, jobs, jobsBefore, jcount, stopTime, requested, attempted, jerr>>
relVars == <<configOf, rpc, rpath, ctxDir, boundDir, relCalls, relDir, rerr, rdone>>
\* the state of a backup run
runVars == <<lockVars, hookVars, lifeVars, spoolVars, jobVars>>
\* the state of what the controller does besides running backups
catVars == <<schemaRows, cpc, csaw, copens, backupRows, lastQuery>>
cfgVars == <<cfgA, cfgB, cfgOp, cfgOut, cfgAgain>>
rtVars == <<rtpc, rtCheck, rtText, rtValue, rtCur, rtLine, rtTrips>>
strVars == <<strMode, strProc, strExit, strErr, strLog, strClosed, strRaised>>
tarVars == <<tarpc, tarRet, tarErr, tarLog, tarRaised>>
alVars == <<alpc, alCfg, alSpec, alSupplied>>
pgVars == <<pgpc, pgArgs, pgStatus, pgCand, pgKept, pgIdx, pgNodes, pgLog>>
lnVars == <<lnpc, lnLinks, lnTmp, lnCall, lnCount>>
anVars == <<anDirs, anClock, anLast>>
opVars == <<otherPurge, otherPurges>>
sideVars == <<relVars, catVars, cfgVars, rtVars, strVars, tarVars, alVars, pgVars,
    lnVars, anVars, opVars>>
\* what the steps of release, of the catalog, of merge / meld, of the
\* round trip, of a stream and of the archiver leave alone
relOther == <<runVars, catVars, cfgVars, rtVars, strVars, tarVars,
    alVars, pgVars, lnVars, anVars, opVars>>
catOther == <<runVars, relVars, cfgVars, rtVars, strVars, tarVars,
    alVars, pgVars, lnVars, anVars, opVars>>
cfgOther == <<runVars, relVars, catVars, rtVars, strVars, tarVars,
    alVars, pgVars, lnVars, anVars, opVars>>
rtOther == <<runVars, relVars, catVars, cfgVars, strVars, tarVars,
    alVars, pgVars, lnVars, anVars, opVars>>
strOther == <<runVars, relVars, catVars, cfgVars, rtVars, tarVars,
    alVars, pgVars, lnVars, anVars, opVars>>
tarOther == <<runVars, relVars, catVars, cfgVars, rtVars, strVars,
    alVars, pgVars, lnVars, anVars, opVars>>
alOther == <<runVars, relVars, catVars, cfgVars, rtVars, strVars, tarVars,
    pgVars, lnVars, anVars, opVars>>
pgOther == <<runVars, relVars, catVars, cfgVars, rtVars, strVars, tarVars,
    alVars, lnVars, anVars, opVars>>
lnOther == <<runVars, relVars, catVars, cfgVars, rtVars, strVars, tarVars,
    alVars, pgVars, anVars, opVars>>
anOther == <<runVars, relVars, catVars, cfgVars, rtVars, strVars, tarVars,
    alVars, pgVars, lnVars, opVars>>
opOther == <<relVars, catVars, cfgVars, rtVars, strVars, tarVars,
    alVars, pgVars, lnVars, anVars>>
vars == <<runVars, sideVars>>
\* what the steps of BackupSpool.lock leave alone
otherVars == <<hookVars, lifeVars, spoolVars, jobVars, sideVars>>

Range(s) == {s[i] : i \in DOMAIN s}

\* =================================================================== lock
Procs == 1..NumProcs

\* str(os.getpid()) of a process; 0 is kept for the empty file
Pid(p) == p
\* the 'unknown' the loser reports when the lock file reads empty
UnknownPid == 0

LockInit ==
    /\ lpc = [p \in Procs |-> "idle"]
    /\ lockFile = 0
    /\ flockHolder = 0
    /\ locked = [p \in Procs |-> FALSE]
    /\ lerr = [p \in Procs |-> <<>>]
    /\ lheld = [p \in Procs |-> 0]
    /\ ldepth = [p \in Procs |-> 0]
    /\ lexit = [p \in Procs |-> "none"]

\* lock(): self.locked is unset, makedirs, open(lock_path, 'a+b')
LockOpen(p) ==
    /\ lpc[p] = "idle"
    /\ ~locked[p]
    /\ lpc' = [lpc EXCEPT ![p] = "opened"]
    /\ lerr' = [lerr EXCEPT ![p] = <<>>]
    /\ UNCHANGED <<lockFile, flockHolder, locked, lheld, ldepth, lexit>>
    /\ UNCHANGED otherVars

\* fcntl.flock(LOCK_EX|LOCK_NB): taken at once, or IOError
LockFlock(p) ==
    /\ lpc[p] = "opened"
    /\ IF flockHolder = 0
       THEN /\ flockHolder' = p
            /\ locked' = [locked EXCEPT ![p] = TRUE]
            /\ lpc' = [lpc EXCEPT ![p] = "acquired"]
            /\ UNCHANGED lheld
       ELSE /\ lpc' = [lpc EXCEPT ![p] = "refused"]
            /\ lheld' = [lheld EXCEPT ![p] = flockHolder]
            /\ UNCHANGED <<flockHolder, locked>>
    /\ UNCHANGED <<lockFile, lerr, ldepth, lexit>>
    /\ UNCHANGED otherVars

\* except IOError: pid = lockf.read() or 'unknown'; raise SpoolLockError
LockReadPid(p) ==
    /\ lpc[p] = "refused"
    /\ lerr' = [lerr EXCEPT ![p] = <<IF lockFile = 0 THEN UnknownPid ELSE lockFile>>]
    /\ lpc' = [lpc EXCEPT ![p] = "error"]
    /\ UNCHANGED <<lockFile, flockHolder, locked, lheld, ldepth, lexit>>
    /\ UNCHANGED otherVars

\* lockf.truncate()
LockTruncate(p) ==
    /\ lpc[p] = "acquired"
    /\ lockFile' = 0
    /\ lpc' = [lpc EXCEPT ![p] = "truncated"]
    /\ UNCHANGED <<flockHolder, locked, lerr, lheld, ldepth, lexit>>
    /\ UNCHANGED otherVars

\* lockf.write(str(os.getpid())); lockf.flush(); yield
LockWritePid(p) ==
    /\ lpc[p] = "truncated"
    /\ lockFile' = Pid(p)
    /\ lpc' = [lpc EXCEPT ![p] = "critical"]
    /\ UNCHANGED <<flockHolder, locked, lerr, lheld, ldepth, lexit>>
    /\ UNCHANGED otherVars

\* lock(name) called inside the with-body of lock(name) on the same spool:
\* self.locked.get(namespace) is set, so the generator only yields
LockNested(p) ==
    /\ lpc[p] = "critical"
    /\ locked[p]
    /\ ldepth[p] < MaxNesting
    /\ ldepth' = [ldepth EXCEPT ![p] = @ + 1]
    /\ UNCHANGED <<lpc, lockFile, flockHolder, locked, lerr, lheld, lexit>>
    /\ UNCHANGED otherVars

\* LockNestedExit, had the inner scope run the finally clause of the outer
LockNestedExitDrops(p) ==
    /\ lpc[p] = "critical"
    /\ ldepth[p] > 0
    /\ ldepth' = [ldepth EXCEPT ![p] = @ - 1]
    /\ locked' = [locked EXCEPT ![p] = FALSE]
    /\ UNCHANGED <<lpc, lockFile, flockHolder, lerr, lheld, lexit>>
    /\ UNCHANGED otherVars

\* the inner with-body ends, normally or by an exception: the generator of
\* the `if` branch has nothing after its yield
LockNestedExit(p) ==
    /\ lpc[p] = "critical"
    /\ ldepth[p] > 0
    /\ ldepth' = [ldepth EXCEPT ![p] = @ - 1]
    /\ UNCHANGED <<lpc, lockFile, flockHolder, locked, lerr, lheld, lexit>>
    /\ UNCHANGED otherVars

\* the ways a scope is left
ExitKinds == {"return", "exception"}

\* the outer with-body ends, normally or by an exception: finally
\* del self.locked[namespace]; the file is closed, which drops the flock;
\* the pid stays in the file
LockRelease(p) ==
    /\ lpc[p] = "critical"
    /\ ldepth[p] = 0
    /\ locked' = [locked EXCEPT ![p] = FALSE]
    /\ flockHolder' = 0
    /\ lpc' = [lpc EXCEPT ![p] = "idle"]
    /\ \E kind \in ExitKinds : lexit' = [lexit EXCEPT ![p] = kind]
    /\ UNCHANGED <<lockFile, lerr, lheld, ldepth>>
    /\ UNCHANGED otherVars

\* LockAbort, had the file stayed open after the exception
LockAbortKeepsFlock(p) ==
    /\ lpc[p] \in {"acquired", "truncated"}
    /\ locked' = [locked EXCEPT ![p] = FALSE]
    /\ lpc' = [lpc EXCEPT ![p] = "idle"]
    /\ lexit' = [lexit EXCEPT ![p] = "exception"]
    /\ UNCHANGED <<flockHolder, lockFile, lerr, lheld, ldepth>>
    /\ UNCHANGED otherVars

\* lockf.truncate(), lockf.write() or lockf.flush() raises: finally
\* del self.locked[namespace], and the with statement closes the file
LockAbort(p) ==
    /\ lpc[p] \in {"acquired", "truncated"}
    /\ locked' = [locked EXCEPT ![p] = FALSE]
    /\ flockHolder' = 0
    /\ lpc' = [lpc EXCEPT ![p] = "idle"]
    /\ lexit' = [lexit EXCEPT ![p] = "exception"]
    /\ UNCHANGED <<lockFile, lerr, lheld, ldepth>>
    /\ UNCHANGED otherVars

\* the caller that got SpoolLockError may call lock() again later
LockRetry(p) ==
    /\ lpc[p] = "error"
    /\ lpc' = [lpc EXCEPT ![p] = "idle"]
    /\ UNCHANGED <<lockFile, flockHolder, locked, lerr, lheld, ldepth, lexit>>
    /\ UNCHANGED otherVars

InCritical(p) == lpc[p] \in {"acquired", "truncated", "critical"}


\* ================================================================== hooks
Events == {"initialize", "before-backup", "completed-backup",
           "failed-backup", "after-backup"}

\* the classes hooks.py registers with @hook_registry.register, in the order
\* of the file; cls names the class, "ext" a class registered from outside
BuiltinHooks ==
    << [name |-> "estimation",           priority |-> 50,  cls |-> "estimation"],
       [name |-> "checksum",             priority |-> 100, cls |-> "checksum"],
       [name |-> "update-status",        priority |-> 0,   cls |-> "update-status"],
       [name |-> "save-config",          priority |-> 0,   cls |-> "save-config"],
       [name |-> "remove-failed-backup", priority |-> 100, cls |-> "remove-failed-backup"],
       [name |-> "rotate-backups",       priority |-> 0,   cls |-> "rotate-backups"],
       [name |-> "user-commands",        priority |-> 100, cls |-> "user-commands"] >>

\* names and priorities of the hooks registered besides the built-in ones;
\* "estimation" re-registers a name that is taken
ExtraNames == {"extra", "estimation"}
ExtraPriorities == {0, 50, 100}

\* position of a name in the registry's ordered dict, 0 when absent
RegistryIndex(reg, name) ==
    IF \E i \in DOMAIN reg : reg[i].name = name
    THEN CHOOSE i \in DOMAIN reg : reg[i].name = name
    ELSE 0

\* RegistryPluginLoader.register: namespace_dict[name] = plugincls; an
\* OrderedDict keeps the slot of a key that is assigned again
RegisterIn(reg, entry) ==
    IF RegistryIndex(reg, entry.name) = 0
    THEN Append(reg, entry)
    ELSE [reg EXCEPT ![RegistryIndex(reg, entry.name)] = entry]

\* HookPlugin.__lt__
HookLess(a, b) == a.priority < b.priority

\* InsertHook, had the sort not been stable: an element goes before the
\* first one it is not greater than
InsertHookUnstable(h, s) ==
    LET later == {i \in DOMAIN s : ~HookLess(s[i], h)}
        at == IF later = {} THEN Len(s) + 1
              ELSE CHOOSE i \in later : \A j \in later : i <= j
    IN  SubSeq(s, 1, at - 1) \o <<h>> \o SubSeq(s, at, Len(s))

\* list.sort is stable: an element goes before the first one it is less than
InsertHook(h, s) ==
    LET later == {i \in DOMAIN s : HookLess(h, s[i])}
        at == IF later = {} THEN Len(s) + 1
              ELSE CHOOSE i \in later : \A j \in later : i <= j
    IN  SubSeq(s, 1, at - 1) \o <<h>> \o SubSeq(s, at, Len(s))

RECURSIVE SortFrom(_, _)
SortFrom(rest, acc) ==
    IF rest = <<>> THEN acc
    ELSE SortFrom(Tail(rest), InsertHook(Head(rest), acc))

\* HookExecutor.__enter__: sorted(list(hook_registry.iterate(namespace)))
SortedHooks(reg) == SortFrom(reg, <<>>)

\* Handles, had ChecksumHook named its handler completed_backup
HandlesChecksumEarly(h, ev) ==
    CASE h.cls = "ext"                  -> TRUE
      [] h.cls = "estimation"           -> ev \in {"before-backup", "failed-backup",
                                                   "completed-backup"}
      [] h.cls = "checksum"             -> ev = "completed-backup"
      [] h.cls = "update-status"        -> ev \in {"before-backup", "after-backup"}
      [] h.cls = "save-config"          -> ev \in {"before-backup", "after-backup"}
      [] h.cls = "remove-failed-backup" -> ev \in {"failed-backup", "after-backup"}
      [] h.cls = "rotate-backups"       -> ev \in {"before-backup", "completed-backup"}
      [] h.cls = "user-commands"        -> ev \in Events \ {"initialize"}
      [] OTHER                          -> FALSE

\* HookPlugin.__call__: getattr(self, event.replace('-', '_'), None)
Handles(h, ev) ==
    CASE h.cls = "ext"                  -> TRUE
      [] h.cls = "estimation"           -> ev \in {"before-backup", "failed-backup",
                                                   "completed-backup"}
      [] h.cls = "checksum"             -> ev = "after-backup"
      [] h.cls = "update-status"        -> ev \in {"before-backup", "after-backup"}
      [] h.cls = "save-config"          -> ev \in {"before-backup", "after-backup"}
      [] h.cls = "remove-failed-backup" -> ev \in {"failed-backup", "after-backup"}
      [] h.cls = "rotate-backups"       -> ev \in {"before-backup", "completed-backup"}
      [] h.cls = "user-commands"        -> ev \in Events \ {"initialize"}
      [] OTHER                          -> FALSE

\* ================================================================== spool
NoExc == [src |-> "none", ev |-> "none"]

\* add_node: '{0:%Y%m%d_%H%M%S}'.format(datetime.now()); the text carries no
\* fraction of a second
FormatTimestamp(now) == [ymdhms |-> now, frac |-> FALSE]

\* datetime.fromtimestamp(0)
Epoch == 0

\* datetime.strptime(text, '%Y%m%d_%H%M%S.%f'), ValueError -> epoch 0: the
\* format wants the '.' and the fraction
ParseTimestamp(text) == IF text.frac THEN text.ymdhms ELSE Epoch

\* key_by_timestamp of iter_nodes
KeyByTimestamp(ts, n) == ParseTimestamp(ts[n])

\* the orders os.listdir can list a set of entries in
Listings(S) ==
    {f \in [1..Cardinality(S) -> S] : \A i, j \in 1..Cardinality(S) : f[i] = f[j] => i = j}

InsertNode(ts, n, s) ==
    LET later == {i \in DOMAIN s : KeyByTimestamp(ts, n) < KeyByTimestamp(ts, s[i])}
        at == IF later = {} THEN Len(s) + 1
              ELSE CHOOSE i \in later : \A j \in later : i <= j
    IN  SubSeq(s, 1, at - 1) \o <<n>> \o SubSeq(s, at, Len(s))

RECURSIVE SortNodesFrom(_, _, _)
SortNodesFrom(ts, rest, acc) ==
    IF rest = <<>> THEN acc
    ELSE SortNodesFrom(ts, Tail(rest), InsertNode(ts, Head(rest), acc))

\* iter_nodes: sorted(os.listdir(path), key=key_by_timestamp), a stable sort
\* of the listing; .holland and the symlinks are skipped
IterNodes(ts, listing) == SortNodesFrom(ts, listing, <<>>)

Reverse(s) == [i \in 1..Len(s) |-> s[Len(s) + 1 - i]]

\* the loop of purge_set over reversed(candidates)
RECURSIVE KeepWalk(_, _, _, _, _)
KeepWalk(rest, kept, cat, retention, exclude) ==
    IF rest = <<>> THEN kept
    ELSE LET node == Head(rest)
             k1 == IF node \in exclude THEN Append(kept, node) ELSE kept
             k2 == IF Len(k1) >= retention THEN k1
                   ELSE IF cat[node] = "completed" THEN Append(k1, node)
                   ELSE k1
         IN  KeepWalk(Tail(rest), k2, cat, retention, exclude)

\* kept_backups of purge_set
KeptBackups(candidates, cat, retention, exclude) ==
    KeepWalk(Reverse(candidates), <<>>, cat, retention, exclude)

\* the symlink a purge_set leaves: replace_symlink(kept[0] / kept[-1]), or
\* unlink when nothing is kept; dry_run only logs
OldestAfter(kept, dry, old) ==
    IF dry THEN old ELSE IF kept # <<>> THEN kept[1] ELSE 0

NewestAfter(kept, dry, old) ==
    IF dry THEN old ELSE IF kept # <<>> THEN kept[Len(kept)] ELSE 0

\* Purged, had the last loop of purge_set not looked at dry_run
PurgedInDryRun(candidates, kept, dry, exclude) ==
    {n \in Range(candidates) : n \notin exclude /\ n \notin Range(kept)}

\* the nodes node.purge() removes: the candidates neither excluded nor kept
Purged(candidates, kept, dry, exclude) ==
    IF dry THEN {}
    ELSE {n \in Range(candidates) : n \notin exclude /\ n \notin Range(kept)}

\* the nodes purge_set calls self.release(node.path) for: each one it is
\* about to purge, whether or not the release succeeds
Released(candidates, kept, dry, exclude) ==
    IF dry THEN {}
    ELSE {n \in Range(candidates) : n \notin exclude /\ n \notin Range(kept)}

\* BackupController.purge_set on a listing of the backupset directory
PurgeSet(listing, ts, cat, retention, dry, exclude, old, new) ==
    LET candidates == IterNodes(ts, listing)
        kept == KeptBackups(candidates, cat, retention, exclude)
    IN  [retention |-> retention, dry |-> dry, exclude |-> exclude,
         listed |-> Range(listing), order |-> candidates,
         candidates |-> Range(candidates),
         completed |-> {n \in Range(candidates) : cat[n] = "completed"},
         kept |-> Range(kept),
         purged |-> Purged(candidates, kept, dry, exclude),
         released |-> Released(candidates, kept, dry, exclude),
         oldest |-> OldestAfter(kept, dry, old),
         newest |-> NewestAfter(kept, dry, new),
         done |-> TRUE]

NoPurge ==
    [retention |-> 0, dry |-> TRUE, exclude |-> {}, listed |-> {}, order |-> <<>>,
     candidates |-> {},
     completed |-> {}, kept |-> {}, purged |-> {}, released |-> {},
     oldest |-> 0, newest |-> 0,
     done |-> FALSE]

\* ============================================================== lifecycle
Policies == {"before-backup", "after-backup"}

\* the regular files of a node: those under .holland, and the strategy's data
NodeFiles == {"timestamp", "status", "config", "checksums", "data"}
NoFiles == [f \in NodeFiles |-> 0]
NoBefore == [nodes |-> {}, oldest |-> 0, newest |-> 0]

\* what a backupset's config and its filesystem give one run: free bytes on
\* the node's filesystem, the strategy's estimate, the configured
\* estimated-size-adjust-by-percent factor, and checksum-algorithm
Options ==
    [free : {1, 2}, est : {1}, adj : {1, 2}, algo : {"none", "md5"}]
\* a run with room to spare and checksums enabled
DefaultOptions == {[free |-> 2, est |-> 1, adj |-> 1, algo |-> "md5"]}

\* EstimationHook.before_backup: available_bytes < adj_estimated_bytes
InsufficientSpace(r) == r.free < r.est * r.adj

\* the process that runs the controller
Controller == 1

\* controller.backup enters `with self.spool.lock(name)`
TakeLock ==
    /\ flockHolder = 0
    /\ flockHolder' = Controller
    /\ locked' = [locked EXCEPT ![Controller] = TRUE]
    /\ lockFile' = Pid(Controller)
    /\ lpc' = [lpc EXCEPT ![Controller] = "critical"]
    /\ UNCHANGED <<lerr, lheld, ldepth, lexit>>

\* controller.backup leaves `with self.spool.lock(name)`, by return or by
\* exception
DropLock ==
    /\ flockHolder' = 0
    /\ locked' = [locked EXCEPT ![Controller] = FALSE]
    /\ lpc' = [lpc EXCEPT ![Controller] = "idle"]
    /\ UNCHANGED <<lockFile, lerr, lheld, ldepth, lexit>>

HooksInit ==
    /\ registry = BuiltinHooks
    /\ regclock = 0
    /\ hooks = <<>>
    /\ called = <<>>

LifeInit ==
    /\ pc = "idle"
    /\ events = <<>>
    /\ exc = NoExc
    /\ origExc = NoExc
    /\ raised = NoExc
    /\ message = NoExc
    /\ cleaned = FALSE
    /\ stopped = FALSE
    /\ run = [dryrun |-> FALSE, policy |-> "after-backup", retention |-> 1,
              free |-> 2, est |-> 1, adj |-> 1, algo |-> "md5"]
    /\ steady = TRUE

SpoolInit ==
    /\ cur = 0
    /\ nodes = {}
    /\ timestamps = <<>>
    /\ oldest = 0
    /\ newest = 0
    /\ catalog = <<>>
    /\ lastPurge = NoPurge
    /\ before = NoBefore
    /\ files = NoFiles
    /\ sums = NoFiles
    /\ committed = <<>>
    /\ commitMsg = NoExc
    /\ commitHeld = FALSE

\* a module that is imported registers one more hook class
Register(name, prio) ==
    /\ pc = "idle"
    /\ cur = 0
    /\ regclock < MaxExtraHooks
    /\ regclock' = regclock + 1
    /\ registry' = RegisterIn(registry, [name |-> name, priority |-> prio, cls |-> "ext"])
    /\ UNCHANGED <<hooks, called, lifeVars, spoolVars, lockVars, jobVars, sideVars>>

\* controller.backup: spool.lock, add_node, the Backup row is saved,
\* plugin.bind, HookExecutor.__enter__; executor.event('initialize') comes next
BeginBackup(dry, pol, ret, opt) ==
    /\ pc = "idle"
    /\ cur < MaxBackups
    /\ TakeLock
    /\ cur' = cur + 1
    /\ nodes' = nodes \cup {cur + 1}
    /\ timestamps' = Append(timestamps, FormatTimestamp(cur + 1))
    /\ catalog' = Append(catalog, "initialized")
    /\ committed' = Append(committed, "initialized")
    /\ commitMsg' = NoExc
    /\ commitHeld' = FALSE
    /\ before' = [nodes |-> nodes, oldest |-> oldest, newest |-> newest]
    /\ files' = [NoFiles EXCEPT !["timestamp"] = 1]
    /\ sums' = NoFiles
    /\ run' = [dryrun |-> dry, policy |-> pol, retention |-> ret,
               free |-> opt.free, est |-> opt.est, adj |-> opt.adj,
               algo |-> opt.algo]
    /\ steady' = (steady /\ ~dry /\ pol = "after-backup" /\ ret = 2)
    /\ hooks' = SortedHooks(registry)
    /\ events' = <<>>
    /\ called' = <<>>
    /\ pc' = "initialize"
    /\ exc' = NoExc
    /\ origExc' = NoExc
    /\ raised' = NoExc
    /\ message' = NoExc
    /\ cleaned' = FALSE
    /\ stopped' = FALSE
    /\ lastPurge' = NoPurge
    /\ UNCHANGED <<registry, regclock, oldest, newest, jobVars, sideVars>>

\* RotateBackupsHook.before_backup / completed_backup call _purge
Rotates(r, ev) ==
    /\ ~r.dryrun
    /\ \/ ev = "before-backup" /\ r.policy = "before-backup"
       \/ ev = "completed-backup" /\ r.policy = "after-backup"

\* ChecksumHook.after_backup gets as far as writing .holland/checksums
Checksums(r, node, ns) ==
    ~r.dryrun /\ r.algo # "none" /\ node \in ns

\* the handler of hook h for event ev can fail when the node directories are ns
CanRaise(h, ev, r, node, ns) ==
    /\ Handles(h, ev)
    /\ CASE h.cls = "ext"                  -> TRUE
         [] h.cls = "estimation"           ->
                IF ev = "before-backup" THEN InsufficientSpace(r) ELSE TRUE
         [] h.cls = "checksum"             -> Checksums(r, node, ns)
         [] h.cls = "update-status"        ->
                ev = "before-backup" \/ node \in ns
         [] h.cls = "save-config"          ->
                ev = "before-backup" \/ node \in ns
         [] h.cls = "remove-failed-backup" ->
                \/ ev = "failed-backup" /\ node \notin ns
                \/ ev = "after-backup" /\ r.dryrun /\ node \notin ns
         [] h.cls = "rotate-backups"       -> Rotates(r, ev)
         [] OTHER                          -> FALSE

\* RemoveFailureHook: shutil.rmtree(backup_directory) on failed-backup,
\* node.purge() on the after-backup of a dry run
RemovesNode(h, ev, r) ==
    /\ h.cls = "remove-failed-backup"
    /\ \/ ev = "failed-backup"
       \/ ev = "after-backup" /\ r.dryrun

\* the handler of hook h for event ev can return when the node directories are ns
CanReturn(h, ev, r, node, ns) ==
    /\ RemovesNode(h, ev, r) => node \in ns
    /\ (h.cls = "estimation" /\ ev = "before-backup") => ~InsufficientSpace(r)

\* the files a returning handler leaves under the current node; env.changed
\* says whether the strategy changed the config since before-backup
FilesAfter(h, ev, r, node, st, env) ==
    CASE h.cls = "update-status" /\ (ev = "before-backup" \/ node \in st.nodes) ->
           [st.files EXCEPT !["status"] = @ + 1]
      [] h.cls = "save-config" /\ ev = "before-backup" ->
           [st.files EXCEPT !["config"] = @ + 1]
      [] h.cls = "save-config" /\ ev = "after-backup"
                               /\ env.changed /\ node \in st.nodes ->
           [st.files EXCEPT !["config"] = @ + 1]
      [] h.cls = "checksum" /\ Checksums(r, node, st.nodes) ->
           [st.files EXCEPT !["checksums"] = @ + 1]
      [] RemovesNode(h, ev, r) -> NoFiles
      [] OTHER -> st.files

\* the entries ChecksumHook.after_backup writes: one for every regular file
\* os.walk finds under the node, but the checksums file
SumsAfter(h, ev, r, node, st) ==
    IF h.cls = "checksum" /\ Checksums(r, node, st.nodes)
    THEN [f \in NodeFiles |-> IF f = "checksums" THEN 0 ELSE st.files[f]]
    ELSE IF RemovesNode(h, ev, r) THEN NoFiles
    ELSE st.sums

\* what a hook's handler leaves of the spool
\* st = [nodes, oldest, newest, purge, files, sums, ok]
HookEffect(h, ev, r, node, st, env, ts, cat) ==
    IF ~Handles(h, ev) THEN st
    ELSE IF h.cls = "rotate-backups" /\ Rotates(r, ev)
    THEN IF Range(env.listing) # st.nodes THEN [st EXCEPT !.ok = FALSE]
         ELSE LET res == PurgeSet(env.listing, ts, cat, r.retention, FALSE, {node},
                                  st.oldest, st.newest)
              IN  [st EXCEPT !.nodes = @ \ res.purged, !.oldest = res.oldest,
                             !.newest = res.newest, !.purge = res]
    ELSE [st EXCEPT !.nodes = IF RemovesNode(h, ev, r) THEN @ \ {node} ELSE @,
                    !.files = FilesAfter(h, ev, r, node, st, env),
                    !.sums = SumsAfter(h, ev, r, node, st)]

\* HookExecutor.event: for obj in self.hooks: obj(name), and the first
\* exception is re-raised. Hooks i..k-1 return; hook k (if any) raises, or
\* a signal arrives while it runs (env.signal).
RECURSIVE RunHooks(_, _, _, _, _, _, _, _, _, _)
RunHooks(hs, i, k, ev, r, node, st, env, ts, cat) ==
    IF i > Len(hs) THEN st
    ELSE IF i = k
    THEN [st EXCEPT !.ok = @ /\ (env.signal \/ CanRaise(hs[i], ev, r, node, st.nodes))]
    ELSE IF ~CanReturn(hs[i], ev, r, node, st.nodes)
    THEN [st EXCEPT !.ok = FALSE]
    ELSE RunHooks(hs, i + 1, k, ev, r, node,
                  HookEffect(hs[i], ev, r, node, st, env, ts, cat),
                  env, ts, cat)

\* the hooks event() invoked when hook k raised (k = Len + 1: none raised)
Invoked(hs, k) == SubSeq(hs, 1, IF k <= Len(hs) THEN k ELSE Len(hs))

\* execute_backup is left with exception e (NoExc: it returns); the
\* executor's __exit__ empties self.hooks, the finally clause of catalog.save
\* commits the row as it is, and then controller.backup leaves the scope of
\* spool.lock
Leave(e) ==
    /\ raised' = e
    /\ pc' = "done"
    /\ hooks' = <<>>
    /\ steady' = (steady /\ e = NoExc)
    /\ committed' = [committed EXCEPT ![cur] = catalog[cur]]
    /\ commitMsg' = message
    /\ commitHeld' = (locked[Controller] /\ flockHolder = Controller)
    /\ DropLock

\* the except clause of execute_backup
Fail(e) ==
    /\ catalog' = [catalog EXCEPT ![cur] = "failed"]
    /\ message' = e
    /\ origExc' = e
    /\ exc' = e
    /\ pc' = "failed-backup"
    /\ UNCHANGED <<committed, commitMsg, commitHeld>>

\* where execute_backup goes on when executor.event(ev) returned
AfterEvent(ev) ==
    /\ pc' = CASE ev = "initialize" -> "setup"
               [] ev = "before-backup" -> "backup"
               [] ev \in {"failed-backup", "completed-backup"} -> "after-backup"
               [] ev = "after-backup" -> "cleanup"
    /\ UNCHANGED <<hooks, exc, origExc, raised, message, catalog, steady, lockVars,
                   committed, commitMsg, commitHeld>>

\* EventRaised, had completed-backup been dispatched inside the try body:
\* its failure would reach the except clause
EventRaisedInTry(ev, e) ==
    CASE ev \in {"initialize", "after-backup"} ->
           /\ Leave(e)
           /\ UNCHANGED <<exc, origExc, message, catalog>>
      [] ev \in {"before-backup", "completed-backup"} ->
           /\ Fail(e)
           /\ UNCHANGED <<hooks, raised, steady, lockVars>>
      [] ev = "failed-backup" ->
           /\ exc' = e
           /\ pc' = "after-backup"
           /\ UNCHANGED <<hooks, raised, origExc, message, catalog, steady, lockVars,
                          committed, commitMsg, commitHeld>>

\* where execute_backup goes on when executor.event(ev) raised e
EventRaised(ev, e) ==
    CASE ev \in {"initialize", "after-backup"} ->
           /\ Leave(e)
           /\ UNCHANGED <<exc, origExc, message, catalog>>
      [] ev = "before-backup" ->
           /\ Fail(e)
           /\ UNCHANGED <<hooks, raised, steady, lockVars>>
      [] ev \in {"failed-backup", "completed-backup"} ->
           /\ exc' = e
           /\ pc' = "after-backup"
           /\ UNCHANGED <<hooks, raised, origExc, message, catalog, steady, lockVars,
                          committed, commitMsg, commitHeld>>

\* KeyboardInterrupt, or the SystemExit that main.terminate raises on SIGTERM
Interrupt == [src |-> "interrupt", ev |-> "none"]

\* executor.event(pc); a signal may arrive while a before-backup handler runs
Dispatch ==
    /\ pc \in Events
    /\ \E k \in 1..(Len(hooks) + 1) :
       \E listing \in IF Rotates(run, pc) THEN Listings(nodes) ELSE {<<>>} :
       \E changed \in IF pc = "after-backup" THEN BOOLEAN ELSE {FALSE} :
       \E signal \in IF pc = "before-backup" /\ k <= Len(hooks)
                      THEN BOOLEAN ELSE {FALSE} :
         LET env == [listing |-> listing, changed |-> changed, signal |-> signal]
             st == RunHooks(hooks, 1, k, pc, run, cur,
                            [nodes |-> nodes, oldest |-> oldest, newest |-> newest,
                             purge |-> lastPurge, files |-> files, sums |-> sums,
                             ok |-> TRUE],
                            env, timestamps, catalog)
         IN  /\ st.ok
             /\ nodes' = st.nodes
             /\ oldest' = st.oldest
             /\ newest' = st.newest
             /\ lastPurge' = st.purge
             /\ files' = st.files
             /\ sums' = st.sums
             /\ events' = Append(events, pc)
             /\ called' = Append(called, Invoked(hooks, k))
             /\ IF k <= Len(hooks)
                THEN EventRaised(pc, IF signal THEN Interrupt
                                     ELSE [src |-> hooks[k].name, ev |-> pc])
                ELSE AfterEvent(pc)
    /\ UNCHANGED <<registry, regclock, cleaned, stopped, run, cur, timestamps,
                   before, jobVars, sideVars>>

\* plugin.setup(), outside the try statement
PluginSetup ==
    /\ pc = "setup"
    /\ \/ /\ pc' = "before-backup"
          /\ UNCHANGED <<hooks, raised, steady, lockVars, committed, commitMsg,
                         commitHeld>>
       \/ Leave([src |-> "setup", ev |-> "none"])
    /\ UNCHANGED <<registry, regclock, called, events, exc, origExc, message,
                   cleaned, stopped, run, cur, nodes, timestamps, oldest, newest,
                   catalog, lastPurge, before, files, sums, jobVars, sideVars>>

\* what plugin.backup() / plugin.dryrun() can raise: the strategy's
\* BackupError, or the exception of a signal
BackupFailures(r) ==
    {[src |-> IF r.dryrun THEN "dryrun" ELSE "backup", ev |-> "none"], Interrupt}

\* PluginBackup, had the else clause left the status of a dry run alone
PluginBackupDrySkips ==
    /\ pc = "backup"
    /\ stopped' = TRUE
    /\ \/ /\ catalog' = IF run.dryrun THEN catalog
                         ELSE [catalog EXCEPT ![cur] = "completed"]
          /\ files' = IF run.dryrun THEN files ELSE [files EXCEPT !["data"] = 1]
          /\ pc' = "completed-backup"
          /\ UNCHANGED <<exc, origExc, message, committed, commitMsg, commitHeld>>
       \/ /\ \E e \in BackupFailures(run) : Fail(e)
          /\ UNCHANGED files
    /\ UNCHANGED <<registry, regclock, hooks, called, events, raised, cleaned,
                   steady, run, cur, nodes, timestamps, oldest, newest, lastPurge,
                   before, sums, lockVars, jobVars, sideVars>>

\* plugin.dryrun() or plugin.backup(), which writes the data under the
\* node; finally backup.stop_time = now; else: backup.status = 'completed'
PluginBackup ==
    /\ pc = "backup"
    /\ stopped' = TRUE
    /\ \/ /\ catalog' = [catalog EXCEPT ![cur] = "completed"]
          /\ files' = IF run.dryrun THEN files ELSE [files EXCEPT !["data"] = 1]
          /\ pc' = "completed-backup"
          /\ UNCHANGED <<exc, origExc, message, committed, commitMsg, commitHeld>>
       \/ /\ \E e \in BackupFailures(run) : Fail(e)
          /\ UNCHANGED files
    /\ UNCHANGED <<registry, regclock, hooks, called, events, raised, cleaned,
                   steady, run, cur, nodes, timestamps, oldest, newest, lastPurge,
                   before, sums, lockVars, jobVars, sideVars>>

\* plugin.cleanup(), last statement of the finally clause
PluginCleanup ==
    /\ pc = "cleanup"
    /\ cleaned' = TRUE
    /\ \/ Leave(exc)
       \/ Leave([src |-> "cleanup", ev |-> "none"])
    /\ UNCHANGED <<registry, regclock, called, events, exc, origExc, message,
                   stopped, run, cur, nodes, timestamps, oldest, newest, catalog,
                   lastPurge, before, files, sums, jobVars, sideVars>>

\* controller.backup or controller.purge_set returns, or raises, to its caller
Return ==
    /\ pc \in {"done", "purged"}
    /\ pc' = "idle"
    /\ events' = <<>>
    /\ called' = <<>>
    /\ exc' = NoExc
    /\ origExc' = NoExc
    /\ raised' = NoExc
    /\ message' = NoExc
    /\ cleaned' = FALSE
    /\ stopped' = FALSE
    /\ lastPurge' = NoPurge
    /\ before' = NoBefore
    /\ files' = NoFiles
    /\ sums' = NoFiles
    /\ commitMsg' = NoExc
    /\ commitHeld' = FALSE
    /\ UNCHANGED <<registry, regclock, hooks, run, steady, cur, nodes, timestamps,
                   oldest, newest, catalog, committed, lockVars, jobVars, sideVars>>

\* controller.purge_set(name, PurgeOptions(ret, dry), exclude) called between
\* backups
PurgeSetCall(ret, dry, exclude) ==
    /\ pc = "idle"
    /\ \E listing \in Listings(nodes) :
         LET res == PurgeSet(listing, timestamps, catalog, ret, dry, exclude,
                             oldest, newest)
         IN  /\ lastPurge' = res
             /\ nodes' = nodes \ res.purged
             /\ oldest' = res.oldest
             /\ newest' = res.newest
    /\ pc' = "purged"
    /\ steady' = (steady /\ dry)
    /\ UNCHANGED <<cur, timestamps, catalog, before, files, sums, committed,
                   commitMsg, commitHeld, hookVars, events,
                   exc, origExc, raised, message, cleaned, stopped, run, lockVars,
                   jobVars, sideVars>>

\* ======================================================= concurrent purge
NoOtherPurge ==
    [done |-> FALSE, dry |-> TRUE, held |-> FALSE, writing |-> 0, purged |-> {},
     oldestBefore |-> 0, newestBefore |-> 0, oldest |-> 0, newest |-> 0]

OtherPurgeInit ==
    /\ otherPurge = NoOtherPurge
    /\ otherPurges = 0

\* another process calls controller.purge_set(name, PurgeOptions(ret, dry))
\* while the controller runs a backup of that backupset inside
\* `with self.spool.lock(name)`: purge_set takes no lock and reads the rows
\* the running backup has committed so far
OtherPurgeSet(ret, dry) ==
    /\ pc \notin {"idle", "done", "purged"}
    /\ otherPurges < MaxOtherPurges
    /\ otherPurges' = otherPurges + 1
    /\ \E listing \in Listings(nodes) :
         LET res == PurgeSet(listing, timestamps, committed, ret, dry, {},
                             oldest, newest)
         IN  /\ otherPurge' = [done |-> TRUE, dry |-> dry,
                               held |-> (flockHolder = Controller),
                               writing |-> cur, purged |-> res.purged,
                               oldestBefore |-> oldest, newestBefore |-> newest,
                               oldest |-> res.oldest, newest |-> res.newest]
             /\ nodes' = nodes \ res.purged
             /\ oldest' = res.oldest
             /\ newest' = res.newest
    /\ UNCHANGED <<cur, timestamps, catalog, lastPurge, before, files, sums,
                   committed, commitMsg, commitHeld, hookVars, lifeVars,
                   lockVars, jobVars, opOther>>

\* ==================================================================== job
\* how loading and backing up one backupset ends: it returns, or
\* load_config raises HollandError (configuration), util.validate raises
\* (plugin), spool.lock raises SpoolLockError (lock), execute_backup raises
\* BackupError (backup) or the KeyboardInterrupt / SystemExit of a signal
Outcomes == {"ok", "configuration", "plugin", "lock", "backup", "interrupt"}

JobInit ==
    /\ jpc = "idle"
    /\ jobs = <<>>
    /\ jobsBefore = <<>>
    /\ jcount = 0
    /\ stopTime = FALSE
    /\ requested = <<>>
    /\ attempted = <<>>
    /\ jerr = "none"

\* Backup.execute calls controller.job(): models.Job(...), self.jobs.append(job)
JobEnter(n) ==
    /\ jpc = "idle"
    /\ jcount < MaxJobs
    /\ jcount' = jcount + 1
    /\ jobsBefore' = jobs
    /\ jobs' = Append(jobs, jcount + 1)
    /\ requested' = [i \in 1..n |-> i]
    /\ attempted' = <<>>
    /\ stopTime' = FALSE
    /\ jerr' = "none"
    /\ jpc' = "saving"
    /\ UNCHANGED <<lockVars, hookVars, lifeVars, spoolVars, sideVars>>

\* catalog.save(job): session.add(model); session.commit(), before the yield
\* and before the try statement of job(); a commit that raises leaves job()
JobSave ==
    /\ jpc = "saving"
    /\ \/ jpc' = "body" /\ UNCHANGED jerr
       \/ jpc' = "left" /\ jerr' = "commit"
    /\ UNCHANGED <<jobs, jobsBefore, jcount, stopTime, requested, attempted>>
    /\ UNCHANGED <<lockVars, hookVars, lifeVars, spoolVars, sideVars>>

\* a Backup row of the job: its status and whether backup_directory is set
BackupRow(status, directory) == [status |-> status, directory |-> directory]

\* the Backup rows one turn of the loop leaves attached to the job.
\* load_config and util.validate raise before models.Backup(name, job) is
\* built; spool.lock raises after it was built and attached to the job, with
\* the default status and no backup_directory; execute_backup raises with
\* status failed, or still initialized when initialize or plugin.setup()
\* raised; a signal arrives at any of these points
RowsOf(outcome) ==
    CASE outcome = "ok" -> {<<BackupRow("completed", TRUE)>>}
      [] outcome \in {"configuration", "plugin"} -> {<<>>}
      [] outcome = "lock" -> {<<BackupRow("initialized", FALSE)>>}
      [] outcome = "backup" ->
            {<<BackupRow("failed", TRUE)>>, <<BackupRow("initialized", TRUE)>>}
      [] outcome = "interrupt" ->
            {<<>>, <<BackupRow("initialized", FALSE)>>,
             <<BackupRow("initialized", TRUE)>>, <<BackupRow("failed", TRUE)>>}

\* one turn of `for name in namespace.backupset`: load_config and
\* controller.backup; an exception leaves the loop and the with-body
JobBackup(outcome) ==
    /\ jpc = "body"
    /\ Len(attempted) < Len(requested)
    /\ \E rows \in RowsOf(outcome) :
          attempted' = Append(attempted,
                              [name |-> requested[Len(attempted) + 1],
                               outcome |-> outcome,
                               rows |-> rows])
    /\ IF outcome = "ok"
       THEN UNCHANGED <<jpc, jerr>>
       ELSE jpc' = "finally" /\ jerr' = outcome
    /\ UNCHANGED <<jobs, jobsBefore, jcount, stopTime, requested>>
    /\ UNCHANGED <<lockVars, hookVars, lifeVars, spoolVars, sideVars>>

\* the loop is exhausted: the with-body ends normally
JobBodyEnds ==
    /\ jpc = "body"
    /\ Len(attempted) = Len(requested)
    /\ jpc' = "finally"
    /\ UNCHANGED <<jobs, jobsBefore, jcount, stopTime, requested, attempted, jerr>>
    /\ UNCHANGED <<lockVars, hookVars, lifeVars, spoolVars, sideVars>>

\* finally of job(): job.stop_time = now, self.jobs.pop(); then the finally
\* of catalog.save commits, and the exception, if any, reaches Backup.execute
JobFinally ==
    /\ jpc = "finally"
    /\ stopTime' = TRUE
    /\ jobs' = SubSeq(jobs, 1, Len(jobs) - 1)
    /\ jpc' = "left"
    /\ UNCHANGED <<jobsBefore, jcount, requested, attempted, jerr>>
    /\ UNCHANGED <<lockVars, hookVars, lifeVars, spoolVars, sideVars>>

\* Backup.execute returns 0 or 1; the controller may be asked for a new job
JobReturn ==
    /\ jpc = "left"
    /\ jpc' = "idle"
    /\ UNCHANGED <<jobs, jobsBefore, jcount, stopTime, requested, attempted, jerr>>
    /\ UNCHANGED <<lockVars, hookVars, lifeVars, spoolVars, sideVars>>

\* ================================================================ release
\* the node directories release(path) can be asked about
RelNodes == 1..MaxBackups

\* what Config.from_path and util.validate make of a node's .holland/config:
\* no file or no node (IOError), a file that does not parse (ConfigError), a
\* config that parses but fails validation or names a plugin that does not
\* load, or a config that validates
ConfigKinds == {"missing", "malformed", "invalid", "valid"}

\* the path of node n of the backupset in the controller's spool
NodePath(n) == [spool |-> "spool", namespace |-> "backupset", name |-> n]

\* os.path.basename(os.path.dirname(path)) and os.path.basename(path)
Namespace(path) == path.namespace
Basename(path) == path.name

\* spool.load_node(namespace, name).path: join(self.path, namespace, name)
LoadNode(namespace, name) ==
    [spool |-> "spool", namespace |-> namespace, name |-> name]

NoPath == [spool |-> "none", namespace |-> "none", name |-> 0]

ReleaseInit ==
    /\ configOf \in [RelNodes -> ConfigKinds]
    /\ rpc = "idle"
    /\ rpath = NoPath
    /\ ctxDir = NoPath
    /\ boundDir = NoPath
    /\ relCalls = 0
    /\ relDir = NoPath
    /\ rerr = "none"
    /\ rdone = 0

\* controller.release(path) is called: path = os.path.realpath(path)
ReleaseCall(n) ==
    /\ rpc = "idle"
    /\ rdone < MaxReleases
    /\ rdone' = rdone + 1
    /\ rpath' = NodePath(n)
    /\ ctxDir' = NoPath
    /\ boundDir' = NoPath
    /\ relCalls' = 0
    /\ relDir' = NoPath
    /\ rerr' = "none"
    /\ rpc' = "load"
    /\ UNCHANGED <<configOf, relOther>>

\* ReleaseLoadConfig, had the except clause gone on to the node with the
\* plugin of the last release
ReleaseLoadConfigAnyway ==
    /\ rpc = "load"
    /\ LET kind == configOf[Basename(rpath)]
       IN  CASE kind = "missing"   -> rpc' = "node" /\ UNCHANGED rerr
             [] kind = "malformed" -> rpc' = "raised" /\ rerr' = "config"
             [] OTHER              -> rpc' = "validate" /\ UNCHANGED rerr
    /\ UNCHANGED <<configOf, rpath, ctxDir, boundDir, relCalls, relDir, rdone, relOther>>

\* try: Config.from_path(join(path, '.holland', 'config')); except IOError:
\* log and skip; any other exception leaves release()
ReleaseLoadConfig ==
    /\ rpc = "load"
    /\ LET kind == configOf[Basename(rpath)]
       IN  CASE kind = "missing"   -> rpc' = "skipped" /\ UNCHANGED rerr
             [] kind = "malformed" -> rpc' = "raised" /\ rerr' = "config"
             [] OTHER              -> rpc' = "validate" /\ UNCHANGED rerr
    /\ UNCHANGED <<configOf, rpath, ctxDir, boundDir, relCalls, relDir, rdone, relOther>>

\* plugin, config = util.validate(config)
ReleaseValidate ==
    /\ rpc = "validate"
    /\ IF configOf[Basename(rpath)] = "valid"
       THEN rpc' = "node" /\ UNCHANGED rerr
       ELSE rpc' = "raised" /\ rerr' = "validate"
    /\ UNCHANGED <<configOf, rpath, ctxDir, boundDir, relCalls, relDir, rdone, relOther>>

\* namespace, name from the path; spool.load_node;
\* catalog.load_backup_from_node: Backup(backup_directory=node.path);
\* BackupContext(backup, config, node, plugin, controller)
ReleaseLoadNode ==
    /\ rpc = "node"
    /\ ctxDir' = LoadNode(Namespace(rpath), Basename(rpath))
    /\ rpc' = "bind"
    /\ UNCHANGED <<configOf, rpath, boundDir, relCalls, relDir, rerr, rdone, relOther>>

\* plugin.bind(context), which may raise
ReleaseBind ==
    /\ rpc = "bind"
    /\ \/ /\ boundDir' = ctxDir
          /\ rpc' = "release"
          /\ UNCHANGED rerr
       \/ /\ rpc' = "raised"
          /\ rerr' = "bind"
          /\ UNCHANGED boundDir
    /\ UNCHANGED <<configOf, rpath, ctxDir, relCalls, relDir, rdone, relOther>>

\* plugin.release(), which may raise
ReleasePlugin ==
    /\ rpc = "release"
    /\ relCalls' = relCalls + 1
    /\ relDir' = boundDir
    /\ \/ rpc' = "returned" /\ UNCHANGED rerr
       \/ rpc' = "raised" /\ rerr' = "release"
    /\ UNCHANGED <<configOf, rpath, ctxDir, boundDir, rdone, relOther>>

\* release(path) returns or raises to its caller
ReleaseReturn ==
    /\ rpc \in {"returned", "skipped", "raised"}
    /\ rpc' = "idle"
    /\ UNCHANGED <<configOf, rpath, ctxDir, boundDir, relCalls, relDir, rerr, rdone,
                   relOther>>

\* =============================================================== catalog
\* no row: what .first() returns on an empty result
NoRow == 0

CatalogInit ==
    /\ schemaRows = 0
    /\ cpc = [p \in Procs |-> "idle"]
    /\ csaw = [p \in Procs |-> FALSE]
    /\ copens = [p \in Procs |-> 0]
    /\ backupRows = <<>>
    /\ lastQuery = [kind |-> "none", rows |-> <<>>, of |-> NoRow, result |-> NoRow]

\* load_catalog: create_engine, metadata.create_all, session = Session()
CatalogSession(p) ==
    /\ cpc[p] \in {"idle", "opened"}
    /\ copens[p] < MaxOpens
    /\ copens' = [copens EXCEPT ![p] = @ + 1]
    /\ cpc' = [cpc EXCEPT ![p] = "session"]
    /\ UNCHANGED <<schemaRows, csaw, backupRows, lastQuery, catOther>>

\* session.query(models.SchemaVersion).first(): a SELECT of its own
CatalogQuery(p) ==
    /\ cpc[p] = "session"
    /\ csaw' = [csaw EXCEPT ![p] = schemaRows > 0]
    /\ cpc' = [cpc EXCEPT ![p] = "queried"]
    /\ UNCHANGED <<schemaRows, copens, backupRows, lastQuery, catOther>>

\* if not ...first(): session.add(models.SchemaVersion()); finally:
\* session.commit(), which inserts the pending row under the next free
\* version number; return Catalog(session)
CatalogCommit(p) ==
    /\ cpc[p] = "queried"
    /\ schemaRows' = IF csaw[p] THEN schemaRows ELSE schemaRows + 1
    /\ cpc' = [cpc EXCEPT ![p] = "opened"]
    /\ UNCHANGED <<csaw, copens, backupRows, lastQuery, catOther>>

\* catalog.save(backup): the row gets the next id and start_time = now
CatalogSave(p) ==
    /\ cpc[p] = "opened"
    /\ Len(backupRows) < MaxRows
    /\ backupRows' = Append(backupRows, Len(backupRows) + 1)
    /\ UNCHANGED <<schemaRows, cpc, csaw, copens, lastQuery, catOther>>

\* order_by(start_time.desc()).limit(1).first(): the row with the greatest
\* start_time among ids, or nothing
FirstDescending(rows, ids) ==
    IF ids = {} THEN NoRow
    ELSE CHOOSE i \in ids : \A j \in ids : rows[j] <= rows[i]

\* Catalog.previous_backup: start_time < backup.start_time, descending
PreviousBackup(rows, b) ==
    LET earlier == {i \in DOMAIN rows : rows[i] < rows[b]}
    IN  FirstDescending(rows, earlier)

\* Catalog.next_backup: start_time > backup.start_time, descending
NextBackup(rows, b) ==
    LET later == {i \in DOMAIN rows : rows[i] > rows[b]}
    IN  FirstDescending(rows, later)

\* a process that opened the catalog calls previous_backup(b)
CatalogPrevious(p) ==
    /\ cpc[p] = "opened"
    /\ \E b \in DOMAIN backupRows :
         lastQuery' = [kind |-> "previous", rows |-> backupRows, of |-> b,
                       result |-> PreviousBackup(backupRows, b)]
    /\ UNCHANGED <<schemaRows, cpc, csaw, copens, backupRows, catOther>>

\* a process that opened the catalog calls next_backup(b)
CatalogNext(p) ==
    /\ cpc[p] = "opened"
    /\ \E b \in DOMAIN backupRows :
         lastQuery' = [kind |-> "next", rows |-> backupRows, of |-> b,
                       result |-> NextBackup(backupRows, b)]
    /\ UNCHANGED <<schemaRows, cpc, csaw, copens, backupRows, catOther>>

\* ================================================================ config
\* A Config is an ordered dict: a sequence of entries with distinct keys. An
\* entry holds a scalar (an option's value) or a section, itself a Config.
Keys == 1..MaxKeys
OptionKeys == 1..MaxOptions
Scalars == {"x", "y"}

Option(k, v) == [key |-> k, kind |-> "scalar", val |-> v, items |-> <<>>]
Section(k, items) == [key |-> k, kind |-> "section", val |-> "", items |-> items]

\* position of key k in config c, 0 when absent
IndexOf(c, k) ==
    IF \E i \in DOMAIN c : c[i].key = k
    THEN CHOOSE i \in DOMAIN c : c[i].key = k
    ELSE 0

\* OrderedDict.__setitem__: a key that is assigned again keeps its place
SetItem(c, e) ==
    IF IndexOf(c, e.key) = 0 THEN Append(c, e)
    ELSE [c EXCEPT ![IndexOf(c, e.key)] = e]

\* what a call leaves: the exception it raised and self afterwards
Done(c) == [err |-> "none", cfg |-> c]
Raised(err, c) == [err |-> err, cfg |-> c]

\* the loop of Config.merge from the i-th item of src_config on
RECURSIVE MergeFrom(_, _, _)
MergeFrom(dst, src, i) ==
    IF i > Len(src) THEN Done(dst)
    ELSE LET e == src[i]
             at == IndexOf(dst, e.key)
         IN  IF e.kind = "section"
             THEN IF at # 0 /\ dst[at].kind # "section"
                  THEN Raised("TypeError", dst)
                  ELSE LET base == IF at = 0 THEN Append(dst, Section(e.key, <<>>))
                                   ELSE dst
                           pos == IF at = 0 THEN Len(dst) + 1 ELSE at
                           sub == MergeFrom(base[pos].items, e.items, 1)
                           next == [base EXCEPT ![pos].items = sub.cfg]
                       IN  IF sub.err # "none" THEN Raised(sub.err, next)
                           ELSE MergeFrom(next, src, i + 1)
             ELSE MergeFrom(SetItem(dst, e), src, i + 1)

\* Config.merge(self, src_config)
Merge(a, b) == MergeFrom(a, b, 1)

\* MeldFrom, had meld let the options of the source win
RECURSIVE MeldFromOverwrites(_, _, _)
MeldFromOverwrites(dst, src, i) ==
    IF i > Len(src) THEN Done(dst)
    ELSE LET e == src[i]
             at == IndexOf(dst, e.key)
         IN  IF e.kind = "section"
             THEN IF at # 0 /\ dst[at].kind # "section"
                  THEN Raised("TypeError", dst)
                  ELSE LET base == IF at = 0 THEN Append(dst, Section(e.key, <<>>))
                                   ELSE dst
                           pos == IF at = 0 THEN Len(dst) + 1 ELSE at
                           sub == MeldFromOverwrites(base[pos].items, e.items, 1)
                           next == [base EXCEPT ![pos].items = sub.cfg]
                       IN  IF sub.err # "none" THEN Raised(sub.err, next)
                           ELSE MeldFromOverwrites(next, src, i + 1)
             ELSE MeldFromOverwrites(SetItem(dst, e), src, i + 1)

\* the loop of Config.meld from the i-th item of config on
RECURSIVE MeldFrom(_, _, _)
MeldFrom(dst, src, i) ==
    IF i > Len(src) THEN Done(dst)
    ELSE LET e == src[i]
             at == IndexOf(dst, e.key)
         IN  IF e.kind = "section"
             THEN IF at # 0 /\ dst[at].kind # "section"
                  THEN Raised("TypeError", dst)
                  ELSE LET base == IF at = 0 THEN Append(dst, Section(e.key, <<>>))
                                   ELSE dst
                           pos == IF at = 0 THEN Len(dst) + 1 ELSE at
                           sub == MeldFrom(base[pos].items, e.items, 1)
                           next == [base EXCEPT ![pos].items = sub.cfg]
                       IN  IF sub.err # "none" THEN Raised(sub.err, next)
                           ELSE MeldFrom(next, src, i + 1)
             ELSE MeldFrom(IF at = 0 THEN Append(dst, e) ELSE dst, src, i + 1)

\* Config.meld(self, config)
Meld(a, b) == MeldFrom(a, b, 1)

ConfigInit ==
    /\ cfgA = <<>>
    /\ cfgB = <<>>
    /\ cfgOp = "none"
    /\ cfgOut = Done(<<>>)
    /\ cfgAgain = Done(<<>>)

\* from_iterable reads `key = value` before any section header of the
\* config that becomes a (which = 1) or b (which = 2)
ConfigOption(which, k, v) ==
    /\ cfgOp = "none"
    /\ LET c == IF which = 1 THEN cfgA ELSE cfgB
           c2 == SetItem(c, Option(k, v))
       IN  /\ IndexOf(c, k) # 0 => c[IndexOf(c, k)].kind = "scalar"
           /\ cfgA' = IF which = 1 THEN c2 ELSE cfgA
           /\ cfgB' = IF which = 2 THEN c2 ELSE cfgB
    /\ UNCHANGED <<cfgOp, cfgOut, cfgAgain, cfgOther>>

\* from_iterable reads a header `[k]`: the section is created when missing
ConfigSection(which, k) ==
    /\ cfgOp = "none"
    /\ LET c == IF which = 1 THEN cfgA ELSE cfgB
       IN  /\ IndexOf(c, k) = 0
           /\ cfgA' = IF which = 1 THEN Append(c, Section(k, <<>>)) ELSE cfgA
           /\ cfgB' = IF which = 2 THEN Append(c, Section(k, <<>>)) ELSE cfgB
    /\ UNCHANGED <<cfgOp, cfgOut, cfgAgain, cfgOther>>

\* from_iterable reads `o = v` under the header `[k]`
ConfigSectionOption(which, k, o, v) ==
    /\ cfgOp = "none"
    /\ LET c == IF which = 1 THEN cfgA ELSE cfgB
           at == IndexOf(c, k)
       IN  /\ at # 0
           /\ c[at].kind = "section"
           /\ LET c2 == [c EXCEPT ![at].items = SetItem(@, Option(o, v))]
              IN  /\ cfgA' = IF which = 1 THEN c2 ELSE cfgA
                  /\ cfgB' = IF which = 2 THEN c2 ELSE cfgB
    /\ UNCHANGED <<cfgOp, cfgOut, cfgAgain, cfgOther>>

\* a.merge(b), and a.merge of its result when it returned
ConfigMerge ==
    /\ cfgOp = "none"
    /\ cfgOp' = "merge"
    /\ cfgOut' = Merge(cfgA, cfgB)
    /\ cfgAgain' = IF Merge(cfgA, cfgB).err = "none"
                   THEN Merge(cfgA, Merge(cfgA, cfgB).cfg)
                   ELSE Merge(cfgA, cfgB)
    /\ UNCHANGED <<cfgA, cfgB, cfgOther>>

\* a.meld(b), and a.meld of its result when it returned
ConfigMeld ==
    /\ cfgOp = "none"
    /\ cfgOp' = "meld"
    /\ cfgOut' = Meld(cfgA, cfgB)
    /\ cfgAgain' = IF Meld(cfgA, cfgB).err = "none"
                   THEN Meld(cfgA, Meld(cfgA, cfgB).cfg)
                   ELSE Meld(cfgA, cfgB)
    /\ UNCHANGED <<cfgA, cfgB, cfgOther>>

\* ============================================================ validators
\* A decimal number n x 10^-e, kept without trailing zeros in the fraction
RECURSIVE Norm(_, _)
Norm(n, e) ==
    IF e > 0 /\ n % 10 = 0 THEN Norm(n \div 10, e - 1) ELSE [n |-> n, e |-> e]

RECURSIVE Pow10(_)
Pow10(k) == IF k = 0 THEN 1 ELSE 10 * Pow10(k - 1)

\* the text of an option: a decimal number, with or without a trailing '%',
\* or a word
NumberText(n, e, pct) == [kind |-> "number", n |-> n, e |-> e, pct |-> pct, w |-> ""]
WordText(w) == [kind |-> "word", n |-> 0, e |-> 0, pct |-> FALSE, w |-> w]
\* the python values validators convert to
FloatValue(d) == [kind |-> "float", n |-> d.n, e |-> d.e, b |-> FALSE]
IntValue(n) == [kind |-> "int", n |-> n, e |-> 0, b |-> FALSE]
BoolValue(b) == [kind |-> "bool", n |-> 0, e |-> 0, b |-> b]

\* the numerals 0, 0.005, 0.125, 0.5, 1 and 50
Numerals ==
    { <<0, 0>>, <<5, 3>>, <<125, 3>>, <<5, 1>>, <<1, 0>>, <<50, 0>> }

\* BoolValidator.convert: valid_bools
TrueWords == {"yes", "on", "true", "1"}
FalseWords == {"no", "off", "false", "0"}

\* the validators registered for the checks used here
Checks == {"boolean", "integer", "float", "percent"}

\* the texts an option with the given check can be validated from
TextsOf(check) ==
    CASE check = "boolean" -> {WordText(w) : w \in TrueWords \cup FalseWords}
      [] check = "integer" -> {NumberText(d[1], 0, FALSE) : d \in {x \in Numerals : x[2] = 0}}
      [] check = "float"   -> {NumberText(d[1], d[2], FALSE) : d \in Numerals}
      [] check = "percent" -> {NumberText(d[1], d[2], pct) : d \in Numerals, pct \in BOOLEAN}

\* validator.validate(text): normalize, then convert.
\* BoolValidator: valid_bools[value.lower()]; IntValidator: int(value, 10);
\* FloatValidator: float(value); PercentValidator: the '%' is dropped if
\* there is one, then float(percent) / 100.0
Validate(check, text) ==
    CASE check = "boolean" -> BoolValue(text.w \in TrueWords)
      [] check = "integer" -> IntValue(text.n)
      [] check = "float"   -> FloatValue(Norm(text.n, text.e))
      [] check = "percent" -> FloatValue(Norm(text.n, text.e + 2))

\* '%.2f' % value: the value to two decimals; up says which way a value
\* halfway between two of them went
Hundredths(n, e, up) ==
    IF e <= 2 THEN n * Pow10(2 - e)
    ELSE LET unit == Pow10(e - 2)
             low == n \div unit
             rest == n % unit
         IN  IF 2 * rest > unit \/ (2 * rest = unit /\ up) THEN low + 1 ELSE low

\* PercentValidator has no format(): AbstractValidator.format, str(value)
FormatPercent(value) == NumberText(value.n, value.e, FALSE)

\* validator.format(value).
\* BoolValidator: value and 'yes' or 'no'; FloatValidator: '%.2f' % value;
\* IntValidator and PercentValidator inherit str(value)
Format(check, value, up) ==
    CASE check = "boolean" -> WordText(IF value.b THEN "yes" ELSE "no")
      [] check = "integer" -> NumberText(value.n, 0, FALSE)
      [] check = "float"   -> NumberText(Hundredths(value.n, value.e, up), 2, FALSE)
      [] check = "percent" -> FormatPercent(value)

\* Config.__str__: "%s = %s" % (key, formatter.format(key, value))
RenderLine(key, text) == [key |-> key, text |-> text]
\* from_iterable: key_cre, valuexform; the value of the line read back
ParseLine(line) == line.text

NoText == WordText("")
NoValue == BoolValue(FALSE)

RoundTripInit ==
    /\ rtpc = "idle"
    /\ rtCheck = "boolean"
    /\ rtText = NoText
    /\ rtValue = NoValue
    /\ rtCur = NoValue
    /\ rtLine = RenderLine("option", NoText)
    /\ rtTrips = 0

\* Configspec.validate on a config that holds `option = text`
RoundTripValidate(check, text) ==
    /\ rtpc = "idle"
    /\ rtCheck' = check
    /\ rtText' = text
    /\ rtValue' = Validate(check, text)
    /\ rtCur' = Validate(check, text)
    /\ rtpc' = "validated"
    /\ UNCHANGED <<rtLine, rtTrips, rtOther>>

\* unicode(config): CheckFormatter.format finds the option's validator
RoundTripRender ==
    /\ rtpc = "validated"
    /\ rtTrips < MaxTrips
    /\ \E up \in BOOLEAN :
         rtLine' = RenderLine("option", Format(rtCheck, rtCur, up))
    /\ rtpc' = "rendered"
    /\ UNCHANGED <<rtCheck, rtText, rtValue, rtCur, rtTrips, rtOther>>

\* Config.from_string(text), then Configspec.validate on the result
RoundTripReload ==
    /\ rtpc = "rendered"
    /\ rtCur' = Validate(rtCheck, ParseLine(rtLine))
    /\ rtTrips' = rtTrips + 1
    /\ rtpc' = "validated"
    /\ UNCHANGED <<rtCheck, rtText, rtValue, rtLine, rtOther>>

\* ============================================================== streams
\* what an external process writes on a line of its stderr
StderrLines == {"warning", "error"}
\* return codes of an external process: killed by SIGKILL, success, failure
ReturnCodes == {-9, 0, 1}

\* BaseCompressionPlugin.open: args = [cmd], '-d' inserted for read mode,
\* '-' + str(cfg.level) appended for write mode
Args(mode) == IF mode = "r" THEN <<"gzip", "-d">> ELSE <<"gzip", "-1">>

\* LOG.info("%s: %s", self.args[0], line.rstrip())
LogLine(prog, line) == [prog |-> prog, text |-> line]

RECURSIVE LogLines(_, _)
LogLines(prog, lines) ==
    IF lines = <<>> THEN <<>>
    ELSE <<LogLine(prog, Head(lines))>> \o LogLines(prog, Tail(lines))

\* close() returned
Returned == [type |-> "none", args |-> <<>>]
\* IOError("%s exited with non-zero status" % list2cmdline(self.args))
IOError(args) == [type |-> "IOError", args |-> args]

StreamInit ==
    /\ strMode = "none"
    /\ strProc = "none"
    /\ strExit = 0
    /\ strErr = <<>>
    /\ strLog = <<>>
    /\ strClosed = FALSE
    /\ strRaised = <<>>

\* BaseCompressionPlugin.open: CompressionInputStream for 'r',
\* CompressionOutputStream for 'w'; __init__ starts the process
StreamOpen(mode) ==
    /\ strMode = "none"
    /\ strMode' = mode
    /\ strProc' = "running"
    /\ UNCHANGED <<strExit, strErr, strLog, strClosed, strRaised, strOther>>

\* the external process writes a line to its stderr
ProcessStderr(line) ==
    /\ strProc = "running"
    /\ Len(strErr) < MaxStderr
    /\ strErr' = Append(strErr, line)
    /\ UNCHANGED <<strMode, strProc, strExit, strLog, strClosed, strRaised, strOther>>

\* the external process exits on its own
ProcessExit(code) ==
    /\ strProc = "running"
    /\ strProc' = "exited"
    /\ strExit' = code
    /\ UNCHANGED <<strMode, strErr, strLog, strClosed, strRaised, strOther>>

\* CompressionInputStream.close: stdout.close(), wait(), closed = True
\* code is the return code wait() gets from a process that was still running
CloseInput(code) ==
    /\ strProc' = "exited"
    /\ strExit' = IF strProc = "exited" THEN strExit ELSE code
    /\ strClosed' = TRUE
    /\ strRaised' = Append(strRaised, Returned)
    /\ UNCHANGED <<strLog>>

\* CompressionOutputStream.close: stdin.close(), wait(), closed = True, the
\* stderr file logged line by line, IOError if returncode != 0
CloseOutput(code) ==
    LET returncode == IF strProc = "exited" THEN strExit ELSE code
    IN  /\ strProc' = "exited"
        /\ strExit' = returncode
        /\ strClosed' = TRUE
        /\ strLog' = strLog \o LogLines(Args(strMode)[1], strErr)
        /\ strRaised' = Append(strRaised,
                               IF returncode # 0 THEN IOError(Args(strMode))
                               ELSE Returned)

\* stream.close()
StreamClose ==
    /\ strMode # "none"
    /\ Len(strRaised) < MaxCloses
    /\ IF strClosed
       THEN /\ strRaised' = Append(strRaised, Returned)
            /\ UNCHANGED <<strProc, strExit, strLog, strClosed>>
       ELSE \E code \in ReturnCodes :
                IF strMode = "r" THEN CloseInput(code) ELSE CloseOutput(code)
    /\ UNCHANGED <<strMode, strErr, strOther>>

\* ============================================================= archiver
\* the keys of signum_to_name
SignalNumbers == (0..15) \cup (17..31) \cup {34, MaxSignal}

signum_to_name ==
    [s \in SignalNumbers |->
        CASE s = 0 -> "SIG_DFL"   [] s = 1 -> "SIG_IGN"   [] s = 2 -> "SIGINT"
          [] s = 3 -> "SIGQUIT"   [] s = 4 -> "SIGILL"    [] s = 5 -> "SIGTRAP"
          [] s = 6 -> "SIGABRT"   [] s = 7 -> "SIGBUS"    [] s = 8 -> "SIGFPE"
          [] s = 9 -> "SIGKILL"   [] s = 10 -> "SIGUSR1"  [] s = 11 -> "SIGSEGV"
          [] s = 12 -> "SIGUSR2"  [] s = 13 -> "SIGPIPE"  [] s = 14 -> "SIGALRM"
          [] s = 15 -> "SIGTERM"  [] s = 17 -> "SIGCLD"   [] s = 18 -> "SIGCONT"
          [] s = 19 -> "SIGSTOP"  [] s = 20 -> "SIGTSTP"  [] s = 21 -> "SIGTTIN"
          [] s = 22 -> "SIGTTOU"  [] s = 23 -> "SIGURG"   [] s = 24 -> "SIGXCPU"
          [] s = 25 -> "SIGXFSZ"  [] s = 26 -> "SIGVTALRM" [] s = 27 -> "SIGPROF"
          [] s = 28 -> "SIGWINCH" [] s = 29 -> "SIGPOLL"  [] s = 30 -> "SIGPWR"
          [] s = 31 -> "SIGSYS"   [] s = 34 -> "SIGRTMIN" [] OTHER -> "SIGRTMAX"]

\* the signals a process can be terminated by
Signals == 1..MaxSignal
\* the return codes of tar: success, failure, or -s when killed by signal s
TarReturnCodes == {0, 1, 2} \cup {-s : s \in Signals}

NoError == [type |-> "none", text |-> "", name |-> "", num |-> 0]
\* ArchiveError("tar was terminated by %s [%d]" % (name, num)) or
\* ArchiveError("tar exited with non-zero status [%d]" % num)
ArchiveError(text, name, num) ==
    [type |-> "ArchiveError", text |-> text, name |-> name, num |-> num]
\* signum_to_name[key] for a key the dict does not have
KeyError(key) == [type |-> "KeyError", text |-> "", name |-> "", num |-> key]

\* archive(): what is raised once wait() returned retcode
Outcome(retcode) ==
    IF retcode = 0 THEN NoError
    ELSE IF retcode < 0
         THEN IF -retcode \in DOMAIN signum_to_name
              THEN ArchiveError("tar was terminated by",
                                signum_to_name[-retcode], -retcode)
              ELSE KeyError(-retcode)
         ELSE ArchiveError("tar exited with non-zero status", "", retcode)

ArchiveInit ==
    /\ tarpc = "idle"
    /\ tarRet = 0
    /\ tarErr = <<>>
    /\ tarLog = <<>>
    /\ tarRaised = NoError

\* archive() up to Popen
TarArchive ==
    /\ tarpc = "idle"
    /\ tarpc' = "running"
    /\ UNCHANGED <<tarRet, tarErr, tarLog, tarRaised, tarOther>>

\* tar writes a line to its stderr, archive.log
TarStderr(line) ==
    /\ tarpc = "running"
    /\ Len(tarErr) < MaxStderr
    /\ tarErr' = Append(tarErr, line)
    /\ UNCHANGED <<tarpc, tarRet, tarLog, tarRaised, tarOther>>

\* tar exits: wait() returns retcode and archive() runs to its end
TarWait(retcode) ==
    /\ tarpc = "running"
    /\ tarpc' = "done"
    /\ tarRet' = retcode
    /\ tarLog' = IF retcode # 0 THEN LogLines("tar", tarErr) ELSE <<>>
    /\ tarRaised' = Outcome(retcode)
    /\ UNCHANGED <<tarErr, tarOther>>

\* ================================================================ aliases
\* the options of BaseCompressionPlugin.configspec used here:
\* options = cmdline(default=list()), and additional-args, its alias
Canonical == "options"
Alias == "additional-args"
AliasKeys == {"method", Canonical, Alias}

\* a value as the parser left it, and as a validator converted it
Raw(text) == [text |-> text, converted |-> FALSE]
\* validator.validate(value): normalize, then convert; a converted value
\* stays as it is
Converted(value) == [text |-> value.text, converted |-> TRUE]
\* default=list()
EmptyList == Raw("")

\* a check of a configspec: its key, its default and what it is an alias of
Check(key, aliasof) == [key |-> key, default |-> EmptyList, aliasof |-> aliasof]

\* the configspec as compression.py has it, and with the alias listed first
Configspecs ==
    { <<Check("method", ""), Check(Canonical, ""), Check(Alias, Canonical)>>,
      <<Check("method", ""), Check(Alias, Canonical), Check(Canonical, "")>> }

\* del config[key]
Delete(c, k) ==
    LET i == IndexOf(c, k)
    IN  IF i = 0 THEN c ELSE SubSeq(c, 1, i - 1) \o SubSeq(c, i + 1, Len(c))

\* OrderedDict.move_to_end(key)
MoveToEnd(c, k) ==
    IF IndexOf(c, k) = 0 THEN c ELSE Append(Delete(c, k), c[IndexOf(c, k)])

\* Config.is_after: keys.index(key1) > keys.index(key2)
IsAfter(c, key1, key2) == IndexOf(c, key1) > IndexOf(c, key2)

\* the loop of Config.rename over keys[idx:]
RECURSIVE MoveAll(_, _, _)
MoveAll(c, names, skip) ==
    IF names = <<>> THEN c
    ELSE MoveAll(IF Head(names) = skip THEN c ELSE MoveToEnd(c, Head(names)),
                 Tail(names), skip)

\* Config.rename(key_name_orig, key_name_new)
Rename(c, orig, new) ==
    LET c1 == SetItem(c, Option(new, c[IndexOf(c, orig)].val))
        idx == IndexOf(c1, orig)
        names == [i \in 1..(Len(c1) - idx + 1) |-> c1[idx + i - 1].key]
    IN  Delete(MoveAll(c1, names, new), orig)

\* Configspec.validate_option(key, config)
ValidateOption(check, c) ==
    IF IndexOf(c, check.key) = 0
    THEN IF check.aliasof # "" THEN c
         ELSE SetItem(c, Option(check.key, Converted(check.default)))
    ELSE LET c1 == SetItem(c, Option(check.key, Converted(c[IndexOf(c, check.key)].val)))
         IN  IF check.aliasof = "" THEN c1
             ELSE IF \/ IndexOf(c1, check.aliasof) = 0
                     \/ IsAfter(c1, check.key, check.aliasof)
                  THEN Rename(c1, check.key, check.aliasof)
                  ELSE Delete(c1, check.key)

\* the loop of Configspec.validate over the configspec's items
RECURSIVE ValidateFrom(_, _, _)
ValidateFrom(spec, c, i) ==
    IF i > Len(spec) THEN c
    ELSE ValidateFrom(spec, ValidateOption(spec[i], c), i + 1)

\* Configspec.check_missing: keys without a configspec entry are deleted
RECURSIVE CheckMissing(_, _, _)
CheckMissing(spec, c, i) ==
    IF i > Len(c) THEN c
    ELSE IF \E j \in DOMAIN spec : spec[j].key = c[i].key
         THEN CheckMissing(spec, c, i + 1)
         ELSE CheckMissing(spec, Delete(c, c[i].key), i)

AliasInit ==
    /\ alpc = "build"
    /\ alCfg = <<>>
    /\ alSpec = <<>>
    /\ alSupplied = <<>>

\* Config.from_iterable reads a line `k = text`
AliasSupply(k, text) ==
    /\ alpc = "build"
    /\ Len(alCfg) < MaxSupplied
    /\ IndexOf(alCfg, k) = 0
    /\ alCfg' = SetItem(alCfg, Option(k, Raw(text)))
    /\ UNCHANGED <<alpc, alSpec, alSupplied, alOther>>

\* spec.validate(config)
AliasValidate(spec) ==
    /\ alpc = "build"
    /\ alSpec' = spec
    /\ alSupplied' = alCfg
    /\ alCfg' = CheckMissing(spec, ValidateFrom(spec, alCfg, 1), 1)
    /\ alpc' = "done"
    /\ UNCHANGED alOther

\* ============================================================ purge loop
PurgeNodes == 1..MaxPurgeNodes
\* every node was added by add_node
PurgeStamps == [n \in PurgeNodes |-> FormatTimestamp(n)]
NoArgs == [retention |-> 0, dry |-> TRUE, exclude |-> {}, failing |-> {}]

\* what the last loop does and logs
Call(op, node) == [op |-> op, node |-> node]

PurgeInit ==
    /\ pgpc = "idle"
    /\ pgArgs = NoArgs
    /\ pgStatus \in [PurgeNodes -> {"completed", "failed"}]
    /\ pgCand = <<>>
    /\ pgKept = <<>>
    /\ pgIdx = 0
    /\ pgNodes = PurgeNodes
    /\ pgLog = <<>>

\* purge_set(name, PurgeOptions(retention, dry), exclude) up to its last
\* loop; release(path) will raise for the nodes in failing
PurgeBegin(retention, dry, exclude, failing) ==
    /\ pgpc = "idle"
    /\ \E listing \in Listings(pgNodes) :
         pgCand' = IterNodes(PurgeStamps, listing)
    /\ pgKept' = KeptBackups(pgCand', pgStatus, retention, exclude)
    /\ pgArgs' = [retention |-> retention, dry |-> dry, exclude |-> exclude,
                  failing |-> failing]
    /\ pgIdx' = 1
    /\ pgpc' = "purging"
    /\ UNCHANGED <<pgStatus, pgNodes, pgLog, pgOther>>

\* PurgeNode, had the last loop called release(node.path) outside a try
\* statement: the first failure leaves purge_set
PurgeNodeReleaseRaises ==
    /\ pgpc = "purging"
    /\ pgIdx <= Len(pgCand)
    /\ LET node == pgCand[pgIdx]
       IN  IF node \in pgArgs.exclude \/ node \in Range(pgKept)
           THEN UNCHANGED <<pgNodes, pgLog, pgpc>> /\ pgIdx' = pgIdx + 1
           ELSE IF pgArgs.dry
           THEN /\ pgLog' = Append(pgLog, Call("would-purge", node))
                /\ pgIdx' = pgIdx + 1
                /\ UNCHANGED <<pgNodes, pgpc>>
           ELSE IF node \in pgArgs.failing
           THEN /\ pgLog' = Append(pgLog, Call("release", node))
                /\ pgpc' = "done"
                /\ UNCHANGED <<pgNodes, pgIdx>>
           ELSE /\ pgLog' = pgLog \o <<Call("release", node), Call("purge", node)>>
                /\ pgNodes' = pgNodes \ {node}
                /\ pgIdx' = pgIdx + 1
                /\ UNCHANGED pgpc
    /\ UNCHANGED <<pgArgs, pgStatus, pgCand, pgKept, pgOther>>

\* one pass of `for node in candidates`: excluded and kept nodes are skipped,
\* a dry run logs, otherwise release(node.path) in a try statement whose
\* except clause logs, and then node.purge()
PurgeNode ==
    /\ pgpc = "purging"
    /\ pgIdx <= Len(pgCand)
    /\ LET node == pgCand[pgIdx]
       IN  IF node \in pgArgs.exclude \/ node \in Range(pgKept)
           THEN UNCHANGED <<pgNodes, pgLog>>
           ELSE IF pgArgs.dry
           THEN /\ pgLog' = Append(pgLog, Call("would-purge", node))
                /\ UNCHANGED pgNodes
           ELSE /\ pgLog' = pgLog \o
                     (IF node \in pgArgs.failing
                      THEN <<Call("release", node), Call("release-failed", node)>>
                      ELSE <<Call("release", node)>>)
                     \o <<Call("purge", node)>>
                /\ pgNodes' = pgNodes \ {node}
    /\ pgIdx' = pgIdx + 1
    /\ UNCHANGED <<pgpc, pgArgs, pgStatus, pgCand, pgKept, pgOther>>

\* return kept_backups, candidates
PurgeReturn ==
    /\ pgpc = "purging"
    /\ pgIdx > Len(pgCand)
    /\ pgpc' = "done"
    /\ UNCHANGED <<pgArgs, pgStatus, pgCand, pgKept, pgIdx, pgNodes, pgLog, pgOther>>

\* ======================================================== replace_symlink
LinkNames == {"oldest", "newest"}
NoCall == [link |-> "oldest", source |-> 0, old |-> 0]

SymlinkInit ==
    /\ lnpc = "idle"
    /\ lnLinks = [l \in LinkNames |-> 0]
    /\ lnTmp = 0
    /\ lnCall = NoCall
    /\ lnCount = 0

\* replace_symlink(source, link_name): os.symlink(source, tmp_link), which
\* makes the temporary link or raises OSError
ReplaceSymlink(source, link) ==
    /\ lnpc \in {"idle", "raised"}
    /\ lnCount < MaxLinkCalls
    /\ lnCount' = lnCount + 1
    /\ lnCall' = [link |-> link, source |-> source, old |-> lnLinks[link]]
    /\ \/ lnTmp = 0 /\ lnTmp' = source /\ lnpc' = "linked"
       \/ lnTmp' = lnTmp /\ lnpc' = "raised"
    /\ UNCHANGED <<lnLinks, lnOther>>

\* ReplaceRename, had the except clause not unlinked the temporary link
ReplaceRenameKeepsTmp ==
    /\ lnpc = "linked"
    /\ \/ /\ lnLinks' = [lnLinks EXCEPT ![lnCall.link] = lnTmp]
          /\ lnTmp' = 0
          /\ lnpc' = "idle"
       \/ /\ lnpc' = "raised"
          /\ UNCHANGED <<lnLinks, lnTmp>>
    /\ UNCHANGED <<lnCall, lnCount, lnOther>>

\* os.rename(tmp_link, link_name): the link is replaced in one step and the
\* call returns; or rename raises, the except clause unlinks the temporary
\* link and raises again
ReplaceRename ==
    /\ lnpc = "linked"
    /\ \/ /\ lnLinks' = [lnLinks EXCEPT ![lnCall.link] = lnTmp]
          /\ lnTmp' = 0
          /\ lnpc' = "idle"
       \/ /\ lnTmp' = 0
          /\ lnpc' = "raised"
          /\ UNCHANGED lnLinks
    /\ UNCHANGED <<lnCall, lnCount, lnOther>>

\* =============================================================== add_node
Seconds == 1..MaxSeconds

\* a directory under the spool: the backupset directory (node 0) or a node
\* directory, or the .holland directory of either
Dir(node, holland) == [node |-> node, holland |-> holland]
Dirs == {Dir(n, h) : n \in {0} \cup Seconds, h \in BOOLEAN}

\* the directories os.makedirs(d) makes sure of: d and those above it
Ancestors(d) ==
    {d} \cup (IF d.holland THEN {Dir(d.node, FALSE)} ELSE {})
        \cup (IF d.node # 0 THEN {Dir(0, FALSE)} ELSE {})

\* os.makedirs(d): OSError(EEXIST) when d exists, another OSError when the
\* filesystem refuses (fails), else d and its missing parents are made
Makedirs(d, dirs, fails) ==
    IF d \in dirs THEN [errno |-> "EEXIST", dirs |-> dirs]
    ELSE IF fails THEN [errno |-> "EACCES", dirs |-> dirs]
    ELSE [errno |-> "", dirs |-> dirs \cup Ancestors(d)]

\* add_node(namespace, name): name is 0 for None. fails1 and fails2 say
\* whether the filesystem refuses the first and the second makedirs
AddNodeResult(name, now, dirs, fails1, fails2) ==
    LET first == Makedirs(Dir(0, TRUE), dirs, fails1)
        node == IF name = 0 THEN now ELSE name
        second == Makedirs(Dir(node, TRUE), first.dirs, fails2)
    IN  IF first.errno \notin {"", "EEXIST"}
        THEN [err |-> "SpoolError", errno |-> first.errno, node |-> 0,
              dirs |-> first.dirs]
        ELSE IF second.errno # ""
        THEN [err |-> "OSError", errno |-> second.errno, node |-> 0,
              dirs |-> second.dirs]
        ELSE [err |-> "none", errno |-> "", node |-> node, dirs |-> second.dirs]

NoAddNode ==
    [called |-> FALSE, name |-> 0, refused |-> FALSE, before |-> {},
     err |-> "none", errno |-> "", node |-> 0]

AddNodeInit ==
    /\ anDirs = {}
    /\ anClock = 1
    /\ anLast = NoAddNode

\* spool.add_node(namespace, name)
AddNode(name, fails1, fails2) ==
    LET res == AddNodeResult(name, anClock, anDirs, fails1, fails2)
    IN  /\ anDirs' = res.dirs
        /\ anLast' = [called |-> TRUE, name |-> name, before |-> anDirs,
                      refused |-> (res.errno = "EACCES"),
                      err |-> res.err, errno |-> res.errno, node |-> res.node]
        /\ UNCHANGED <<anClock, anOther>>

\* a second passes
ClockTick ==
    /\ anClock < MaxSeconds
    /\ anClock' = anClock + 1
    /\ UNCHANGED <<anDirs, anLast, anOther>>

\* something else than add_node makes a directory whose parent exists
Mkdir(d) ==
    /\ d \notin anDirs
    /\ Ancestors(d) \ {d} \subseteq anDirs
    /\ anDirs' = anDirs \cup {d}
    /\ UNCHANGED <<anClock, anLast, anOther>>

\* ========================================================= specifications
\* a backupset all of whose backups completed
PurgeIdle == PurgeInit /\ pgStatus = [n \in PurgeNodes |-> "completed"]

\* a backupset whose nodes all have a config that validates
ReleaseIdle == ReleaseInit /\ configOf = [n \in RelNodes |-> "valid"]

RunInit == LockInit /\ HooksInit /\ LifeInit /\ SpoolInit /\ JobInit

SideInit ==
    /\ CatalogInit /\ ConfigInit /\ RoundTripInit /\ StreamInit /\ ArchiveInit
    /\ AliasInit
    /\ PurgeIdle
    /\ SymlinkInit
    /\ AddNodeInit
    /\ OtherPurgeInit

Init == RunInit /\ ReleaseIdle /\ SideInit

Lifecycle ==
    \/ Dispatch
    \/ PluginSetup
    \/ PluginBackup
    \/ PluginCleanup
    \/ Return

Next ==
    \/ \E dry \in BOOLEAN, pol \in Policies, ret \in 1..MaxRetention,
          opt \in DefaultOptions :
         BeginBackup(dry, pol, ret, opt)
    \/ Lifecycle
    \/ \E ret \in 0..MaxRetention, dry \in BOOLEAN, exclude \in SUBSET (1..cur) :
         PurgeSetCall(ret, dry, exclude)

Spec == Init /\ [][Next]_vars

\* one backup under every registry MaxExtraHooks registrations can build
HooksNext ==
    \/ \E name \in ExtraNames, prio \in ExtraPriorities : Register(name, prio)
    \/ \E dry \in BOOLEAN, pol \in Policies, ret \in 1..MaxRetention,
          opt \in DefaultOptions :
         cur = 0 /\ BeginBackup(dry, pol, ret, opt)
    \/ Lifecycle

SpecHooks == Init /\ [][HooksNext]_vars

\* the first backup of a backupset, under every option
NodeNext ==
    \/ \E dry \in BOOLEAN, pol \in Policies, ret \in 1..MaxRetention,
          opt \in Options :
         cur = 0 /\ BeginBackup(dry, pol, ret, opt)
    \/ Lifecycle

SpecNode == Init /\ [][NodeNext]_vars

LockNext ==
    \E p \in Procs :
        \/ LockOpen(p)
        \/ LockFlock(p)
        \/ LockReadPid(p)
        \/ LockTruncate(p)
        \/ LockWritePid(p)
        \/ LockNested(p)
        \/ LockNestedExit(p)
        \/ LockRelease(p)
        \/ LockAbort(p)
        \/ LockRetry(p)

SpecLock == Init /\ [][LockNext]_vars

JobNext ==
    \/ \E n \in 1..MaxBackupsets : JobEnter(n)
    \/ JobSave
    \/ \E outcome \in Outcomes : JobBackup(outcome)
    \/ JobBodyEnds
    \/ JobFinally
    \/ JobReturn

SpecJob == Init /\ [][JobNext]_vars

\* release(path) called on nodes with every kind of config
ReleaseNext ==
    \/ \E n \in RelNodes : ReleaseCall(n)
    \/ ReleaseLoadConfig
    \/ ReleaseValidate
    \/ ReleaseLoadNode
    \/ ReleaseBind
    \/ ReleasePlugin
    \/ ReleaseReturn

\* release is called on nodes whose config is of any kind
ReleaseStart == RunInit /\ ReleaseInit /\ SideInit

SpecRelease == ReleaseStart /\ [][ReleaseNext]_vars

\* processes that open one catalog database, save backups and query them
CatalogStep ==
    \E p \in Procs :
        \/ CatalogSession(p)
        \/ CatalogQuery(p)
        \/ CatalogCommit(p)
        \/ CatalogSave(p)
        \/ CatalogPrevious(p)
        \/ CatalogNext(p)

SpecCatalog == Init /\ [][CatalogStep]_vars

\* two configs are parsed, then one is merged or melded into the other
ConfigNext ==
    \/ \E which \in {1, 2}, k \in Keys, v \in Scalars : ConfigOption(which, k, v)
    \/ \E which \in {1, 2}, k \in Keys : ConfigSection(which, k)
    \/ \E which \in {1, 2}, k \in Keys, o \in OptionKeys, v \in Scalars :
         ConfigSectionOption(which, k, o, v)
    \/ ConfigMerge
    \/ ConfigMeld

SpecConfig == Init /\ [][ConfigNext]_vars

\* an option of every check is validated from every text, rendered and
\* validated again
RoundTripNext ==
    \/ \E check \in Checks : \E text \in TextsOf(check) :
         RoundTripValidate(check, text)
    \/ RoundTripRender
    \/ RoundTripReload

SpecRoundTrip == Init /\ [][RoundTripNext]_vars

\* a stream is opened for reading or writing and closed, more than once,
\* while its process writes to stderr and exits
StreamNext ==
    \/ \E mode \in {"r", "w"} : StreamOpen(mode)
    \/ \E line \in StderrLines : ProcessStderr(line)
    \/ \E code \in ReturnCodes : ProcessExit(code)
    \/ StreamClose

SpecStream == Init /\ [][StreamNext]_vars

\* tar is started, writes to stderr and exits or is killed
ArchiveNext ==
    \/ TarArchive
    \/ \E line \in StderrLines : TarStderr(line)
    \/ \E retcode \in TarReturnCodes : TarWait(retcode)

SpecArchive == Init /\ [][ArchiveNext]_vars

\* a config that supplies any of the options, in any order, is validated
\* against either configspec
AliasNext ==
    \/ \E k \in AliasKeys, text \in Scalars : AliasSupply(k, text)
    \/ \E spec \in Configspecs : AliasValidate(spec)

SpecAlias == Init /\ [][AliasNext]_vars

\* one purge_set call on a backupset of completed and failed backups, with
\* at most one excluded node and any releases failing
PurgeNext ==
    \/ \E retention \in 0..MaxRetention, dry \in BOOLEAN,
          exclude \in {{}} \cup {{n} : n \in PurgeNodes},
          failing \in SUBSET PurgeNodes :
         PurgeBegin(retention, dry, exclude, failing)
    \/ PurgeNode
    \/ PurgeReturn

PurgeStart ==
    /\ RunInit /\ ReleaseIdle /\ CatalogInit /\ ConfigInit /\ RoundTripInit
    /\ StreamInit /\ ArchiveInit /\ AliasInit /\ PurgeInit /\ SymlinkInit
    /\ AddNodeInit /\ OtherPurgeInit

SpecPurge == PurgeStart /\ [][PurgeNext]_vars

\* backups of one backupset while another process calls purge_set on it
ConcurrentNext ==
    \/ \E dry \in BOOLEAN, pol \in Policies, ret \in 1..MaxRetention,
          opt \in DefaultOptions :
         BeginBackup(dry, pol, ret, opt)
    \/ Lifecycle
    \/ \E ret \in 0..MaxRetention, dry \in BOOLEAN : OtherPurgeSet(ret, dry)

SpecConcurrent == Init /\ [][ConcurrentNext]_vars

\* the symlinks of a backupset are pointed at its nodes, call after call
SymlinkNext ==
    \/ \E source \in PurgeNodes, link \in LinkNames : ReplaceSymlink(source, link)
    \/ ReplaceRename

SpecSymlink == Init /\ [][SymlinkNext]_vars

\* add_node is called, with and without a name, as time passes and while
\* directories are made by others
AddNodeNext ==
    \/ \E name \in {0} \cup Seconds, fails1, fails2 \in BOOLEAN :
         AddNode(name, fails1, fails2)
    \/ ClockTick
    \/ \E d \in Dirs : Mkdir(d)

SpecAddNode == Init /\ [][AddNodeNext]_vars

\* ================================================================== claims
MinOf(a, b) == IF a <= b THEN a ELSE b

\* the time add_node stamped node n with
StampOf(n) == timestamps[n].ymdhms

\* C1: of the processes that call lock(name) on one backupset at overlapping
\* times at most one is inside the critical section, and the pid carried by
\* a loser's SpoolLockError is the pid of the process that held the lock
\* when the loser's flock was refused.
C1_LockErrorCarriesHolderPid ==
    /\ Cardinality({p \in Procs : InCritical(p)}) <= 1
    /\ \A p \in Procs : lpc[p] = "error" => lerr[p] = <<Pid(lheld[p])>>

\* C2: after a non-dry-run purge_set the number of nodes kept is
\* min(R, |completed nodes \cup excluded nodes|), the kept completed nodes
\* are the newest ones, and exactly the nodes not kept are deleted.
C2_PurgeKeepsMinRetention ==
    (lastPurge.done /\ ~lastPurge.dry) =>
        /\ Cardinality(lastPurge.kept) =
               MinOf(lastPurge.retention,
                     Cardinality(lastPurge.completed
                                 \cup (lastPurge.exclude \cap lastPurge.candidates)))
        /\ \A k \in lastPurge.kept \ lastPurge.exclude :
               \A d \in lastPurge.purged \cap lastPurge.completed :
                   StampOf(d) < StampOf(k)
        /\ lastPurge.purged = lastPurge.candidates \ lastPurge.kept

\* C3: after a non-dry-run purge_set that keeps a node, `oldest` points at
\* the kept node with the earliest timestamp and `newest` at the kept node
\* with the latest one; when nothing is kept both symlinks are absent.
C3_SymlinksAtKeptExtremes ==
    (lastPurge.done /\ ~lastPurge.dry) =>
        IF lastPurge.kept # {}
        THEN /\ lastPurge.oldest \in lastPurge.kept
             /\ lastPurge.newest \in lastPurge.kept
             /\ \A k \in lastPurge.kept :
                    /\ StampOf(lastPurge.oldest) <= StampOf(k)
                    /\ StampOf(k) <= StampOf(lastPurge.newest)
        ELSE lastPurge.oldest = 0 /\ lastPurge.newest = 0

\* C4: after N >= 2 successful non-dry-run backups with retention-count 2
\* and purge-policy after-backup, exactly the two most recent nodes remain,
\* `oldest` points at the older, `newest` at the node of the run that just
\* finished, and the catalog holds a row for every run.
C4_RotationKeepsTwo ==
    (pc = "done" /\ steady /\ cur >= 2) =>
        /\ nodes = {cur - 1, cur}
        /\ oldest = cur - 1
        /\ newest = cur
        /\ DOMAIN catalog = 1..cur

\* C5: after a failed non-dry-run backup the node directory of that backup
\* is gone and neither `oldest` nor `newest` points at it.
C5_FailedNodeRemoved ==
    (pc = "done" /\ ~run.dryrun /\ catalog[cur] = "failed") =>
        /\ cur \notin nodes
        /\ oldest # cur
        /\ newest # cur

IsPrefix(s, t) == Len(s) <= Len(t) /\ SubSeq(t, 1, Len(s)) = s

CompletedOrder == <<"initialize", "before-backup", "completed-backup", "after-backup">>
FailedOrder == <<"initialize", "before-backup", "failed-backup", "after-backup">>

Before(log, a, b) ==
    \A i, j \in DOMAIN log : (log[i].cls = a /\ log[j].cls = b) => i < j

\* C7: within every dispatched event the hooks are invoked in ascending
\* priority and, at equal priority, in the order of their registration; the
\* built-in update-status, save-config and rotate-backups run before
\* estimation, which runs before checksum, remove-failed-backup and
\* user-commands.
C7_HooksInPriorityOrder ==
    \A k \in DOMAIN called :
        /\ \A i, j \in DOMAIN called[k] :
               i < j =>
                   \/ called[k][i].priority < called[k][j].priority
                   \/ /\ called[k][i].priority = called[k][j].priority
                      /\ RegistryIndex(registry, called[k][i].name)
                             < RegistryIndex(registry, called[k][j].name)
        /\ \A a \in {"update-status", "save-config", "rotate-backups"} :
               Before(called[k], a, "estimation")
        /\ \A b \in {"checksum", "remove-failed-backup", "user-commands"} :
               Before(called[k], "estimation", b)

\* C7 happens: an event has invoked every hook of a registry that holds
\* hooks registered besides the built-in ones, one of them at priority 0
C7_Witness ==
    \E k \in DOMAIN called :
        /\ Len(called[k]) = Len(registry)
        /\ Len(registry) > Len(BuiltinHooks)
        /\ \E i \in DOMAIN called[k] :
               called[k][i].cls = "ext" /\ called[k][i].priority = 0
        /\ \E i \in DOMAIN called[k] : called[k][i].cls = "estimation"

\* C8: when a hook raises while handling an event every remaining hook of
\* that event is still invoked, and if the backup had already failed with
\* an exception, that exception is the one that leaves the backup.
C8_HookFailureKeepsDispatching ==
    /\ \A k \in DOMAIN called : Len(called[k]) = Len(registry)
    /\ (pc = "done" /\ origExc # NoExc) => raised = origExc

\* the exception of the first lifecycle step that raised: the one the
\* except clause caught, or the one initialize / plugin.setup left with
FirstFailure ==
    IF origExc # NoExc THEN origExc
    ELSE IF pc = "done" /\ Len(events) <= 1 THEN raised
    ELSE NoExc

\* C9: if initialize, plugin.setup, before-backup or plugin.backup /
\* plugin.dryrun raises, backup.status is failed, backup.message is the
\* exception's text, failed-backup is emitted and the same exception is
\* re-raised to the caller.
C9_FailureMarksAndReraises ==
    (pc = "done" /\ FirstFailure # NoExc) =>
        /\ catalog[cur] = "failed"
        /\ message = FirstFailure
        /\ "failed-backup" \in Range(events)
        /\ raised = FirstFailure

\* C10: on every exit path of a backup after-backup is emitted and
\* plugin.cleanup() is then called before control leaves the backup.
C10_AlwaysAfterBackupAndCleanup ==
    pc = "done" => ("after-backup" \in Range(events) /\ cleaned)

\* C18: the spool lock is reentrant within a process: a step that enters or
\* leaves a nested lock(name) scope touches neither the lock file nor the
\* flock nor spool.locked, a process inside a nested scope still holds the
\* outer lock, and a process keeps the lock (spool.locked set, flock held,
\* every other process outside the critical section) until its outer scope
\* exits.
C18_LockReentrant ==
    /\ [](\A p \in Procs :
            /\ ldepth[p] > 0 => lpc[p] = "critical"
            /\ lpc[p] = "critical" =>
                   /\ locked[p]
                   /\ flockHolder = p
                   /\ \A q \in Procs \ {p} : ~InCritical(q))
    /\ [][\A p \in Procs :
            ldepth'[p] # ldepth[p] =>
                /\ lockFile' = lockFile
                /\ flockHolder' = flockHolder
                /\ locked' = locked
                /\ lpc' = lpc]_vars

\* C18 happens: a process is inside a nested scope of its own lock and
\* another process had its flock refused by it
C18_Witness ==
    \E p \in Procs :
        /\ lpc[p] = "critical"
        /\ ldepth[p] > 0
        /\ \E q \in Procs \ {p} : lpc[q] = "error" /\ lheld[q] = p
        /\ locked[p]
        /\ lexit[p] = "none"

\* C19: lock(name) never waits, and an outer scope that exits, by return or
\* by exception, releases the lock: a process whose flock call is over is
\* either inside the scope or was refused, the flock is held only by a
\* process inside its scope, spool.locked is set only inside the scope, and
\* so whenever no process is inside a scope the next flock succeeds.
C19_LockNeverWaitsAndIsReleased ==
    /\ \A p \in Procs :
           /\ locked[p] <=> InCritical(p)
           /\ lpc[p] \in {"idle", "opened", "refused", "error"} => flockHolder # p
    /\ flockHolder # 0 => InCritical(flockHolder)
    /\ (\A p \in Procs : ~InCritical(p)) => flockHolder = 0

\* C19 happens: after one process left its scope by an exception another
\* process is inside the critical section with its pid in the lock file
C19_Witness ==
    \E p, q \in Procs :
        /\ p # q
        /\ lexit[q] = "exception"
        /\ lpc[q] = "idle"
        /\ lpc[p] = "critical"
        /\ lockFile = Pid(p)

\* C12: within one job the failure of one backupset (configuration, plugin,
\* lock or backup error) does not abort the job: when the job scope has
\* been left without a signal, every requested backupset has been
\* attempted, in the order given.
C12_JobContinuesAfterFailure ==
    (jpc = "left" /\ jerr \notin {"commit", "interrupt"}) =>
        [i \in DOMAIN attempted |-> attempted[i].name] = requested

\* C20: whenever a controller.job() scope is left, normally or by an error
\* at any point after job() was called, job.stop_time is set and the job
\* stack is what it was before the scope was entered.
C20_JobScopeRestores ==
    jpc = "left" => (stopTime /\ jobs = jobsBefore)

\* C11: after a successful non-dry-run backup with a checksum algorithm
\* other than none the node holds .holland/timestamp, status, config and
\* checksums, and the checksums file has an entry for every regular file
\* under the node but itself, each of the file's final version (nothing
\* writes under the node after the checksum hook ran).
C11_ChecksumsCoverNode ==
    (pc = "done" /\ raised = NoExc /\ ~run.dryrun /\ run.algo # "none") =>
        /\ \A f \in {"timestamp", "status", "config", "checksums"} : files[f] > 0
        /\ \A f \in NodeFiles \ {"checksums"} : files[f] > 0 => sums[f] = files[f]
        /\ sums["checksums"] = 0

\* C11 happens: a backup has returned whose status and config files were
\* rewritten in after-backup and whose checksums are of those versions
C11_Witness ==
    /\ pc = "done"
    /\ raised = NoExc
    /\ ~run.dryrun
    /\ run.algo # "none"
    /\ files["status"] = 2
    /\ files["config"] = 2
    /\ sums["config"] = 2
    /\ sums["data"] = 1

\* C13: a keyboard interrupt or termination signal arriving during
\* before-backup or the strategy's backup()/dryrun() takes the failure
\* path: status failed, failed-backup then after-backup dispatched, the
\* node removed, the spool lock released, and the interrupt re-raised.
C13_InterruptTakesFailurePath ==
    (pc = "done" /\ origExc = Interrupt) =>
        /\ catalog[cur] = "failed"
        /\ events = FailedOrder
        /\ cur \notin nodes
        /\ ~locked[Controller]
        /\ flockHolder = 0
        /\ raised = Interrupt

\* C14: a dry-run backup deletes no node that existed before it and
\* changes neither symlink, and once after-backup has been dispatched the
\* node it created no longer exists.
C14_DryRunLeavesNoTrace ==
    (run.dryrun /\ pc \notin {"idle", "purged"}) =>
        /\ before.nodes \subseteq nodes
        /\ oldest = before.oldest
        /\ newest = before.newest
        /\ (pc \in {"cleanup", "done"} /\ "after-backup" \in Range(events)) =>
               cur \notin nodes

\* C15 as stated: no Backup row of a dry-run job ever has status completed.
C15_DryRunNeverCompleted ==
    (run.dryrun /\ cur > 0) => catalog[cur] # "completed"

\* C15: a dry run changes the Backup row of no other run, and its own row
\* becomes completed exactly when before-backup and plugin.dryrun() returned
\* without raising, as for a real backup; it is failed when one of them
\* raised.
C15_DryRunCompletesOwnRowOnly ==
    /\ [](\/ ~run.dryrun
          \/ pc \in {"idle", "purged"}
          \/ catalog[cur] =
                 IF origExc # NoExc THEN "failed"
                 ELSE IF stopped THEN "completed"
                 ELSE "initialized")
    /\ [][\A n \in DOMAIN catalog : n # cur => catalog'[n] = catalog[n]]_vars

\* C15 happens: a dry run has returned and its Backup row is completed,
\* beside the row of an earlier backup
C15_Witness ==
    /\ pc = "done"
    /\ run.dryrun
    /\ raised = NoExc
    /\ cur > 1
    /\ catalog[cur] = "completed"

\* the exception of EstimationHook.before_backup
NoSpace == [src |-> "estimation", ev |-> "before-backup"]

\* C16: in before-backup the estimation hook fails the backup exactly when
\* free space < estimated size x adjust factor; when it fails the
\* strategy's backup() is never called, the Backup row ends failed, the
\* node directory is removed and oldest/newest are as before the run.
C16_InsufficientSpaceFailsCleanly ==
    /\ (Len(called) >= 2 /\ origExc # Interrupt
          /\ \E i \in DOMAIN called[2] : called[2][i].cls = "estimation") =>
           (origExc = NoSpace <=> run.free < run.est * run.adj)
    /\ (pc = "done" /\ origExc = NoSpace) =>
           /\ ~stopped
           /\ catalog[cur] = "failed"
           /\ cur \notin nodes
           /\ oldest = before.oldest
           /\ newest = before.newest

\* C17: iter_nodes yields every node add_node created exactly once, in the
\* order of the timestamps add_node stored, i.e. in creation order.
C17_IterNodesInTimestampOrder ==
    lastPurge.done =>
        /\ Range(lastPurge.order) = lastPurge.listed
        /\ Len(lastPurge.order) = Cardinality(lastPurge.listed)
        /\ \A i, j \in DOMAIN lastPurge.order :
               i < j => StampOf(lastPurge.order[i]) < StampOf(lastPurge.order[j])

\* C21: catalog.save commits the Backup row before the lifecycle runs and
\* again when it is left, on every path, so once controller.backup has
\* returned or raised from the lifecycle the committed row carries the
\* final status, completed or failed, and the message; that last commit was
\* made while the spool lock was still held.
C21_FinalStatusCommittedUnderLock ==
    /\ (pc \notin {"idle", "purged"}) => cur \in DOMAIN committed
    /\ pc = "done" =>
           /\ committed[cur] \in {"completed", "failed"}
           /\ committed[cur] = catalog[cur]
           /\ commitMsg = message
           /\ commitHeld
           /\ ~locked[Controller]

\* C23: purge_set with dry_run = true changes nothing on the filesystem: it
\* purges no node, calls release() for none, and the step that runs it
\* leaves the set of nodes and the targets of oldest and newest as they were.
C23_DryRunPurgeChangesNothing ==
    /\ []((lastPurge.done /\ lastPurge.dry) =>
             (lastPurge.purged = {} /\ lastPurge.released = {}))
    /\ [][(lastPurge'.done /\ lastPurge'.dry /\ pc = "idle") =>
              /\ nodes' = nodes
              /\ oldest' = oldest
              /\ newest' = newest
              /\ timestamps' = timestamps]_vars

\* C23 happens: a dry-run purge_set has returned that, run for real, would
\* have purged a node and moved the oldest symlink
C23_Witness ==
    /\ pc = "purged"
    /\ lastPurge.dry
    /\ lastPurge.candidates \ (lastPurge.kept \cup lastPurge.exclude) # {}
    /\ oldest \in nodes
    /\ oldest \notin lastPurge.kept

\* a release(path) call is over
ReleaseOver == rpc \in {"returned", "skipped", "raised"}

C24_OneSchemaVersionRow == schemaRows <= 1

\* C28: previous_backup(b) returns the backup with the greatest start_time
\* below b's and next_backup(b) the one with the smallest start_time above
\* b's; each returns nothing when there is no such backup.
C28_NeighbourBackups ==
    LET rows == lastQuery.rows
        b == lastQuery.of
        r == lastQuery.result
        earlier == {i \in DOMAIN rows : rows[i] < rows[b]}
        later == {i \in DOMAIN rows : rows[i] > rows[b]}
    IN  /\ lastQuery.kind = "previous" =>
               IF earlier = {} THEN r = NoRow
               ELSE r \in earlier /\ \A i \in earlier : rows[i] <= rows[r]
        /\ lastQuery.kind = "next" =>
               IF later = {} THEN r = NoRow
               ELSE r \in later /\ \A i \in later : rows[r] <= rows[i]

\* the entry of config c under key k
Entry(c, k) == c[IndexOf(c, k)]

\* no key holds an option in one config and a section in the other
NoTypeConflict(a, b) ==
    \A i \in DOMAIN a, j \in DOMAIN b :
        a[i].key = b[j].key => a[i].kind = b[j].kind

\* every option of src, at the top and under each section, has its value in out
RECURSIVE OptionsOf(_, _)
OptionsOf(src, out) ==
    \A i \in DOMAIN src :
        /\ IndexOf(out, src[i].key) # 0
        /\ Entry(out, src[i].key).kind = src[i].kind
        /\ IF src[i].kind = "scalar"
           THEN Entry(out, src[i].key).val = src[i].val
           ELSE OptionsOf(src[i].items, Entry(out, src[i].key).items)

\* the keys of out are those of a, in a's order, then those b adds, in b's
KeysOf(c) == [i \in DOMAIN c |-> c[i].key]
AddedKeys(a, b) == SelectSeq(KeysOf(b), LAMBDA k : IndexOf(a, k) = 0)
RECURSIVE KeysInOrder(_, _, _)
KeysInOrder(a, b, out) ==
    /\ KeysOf(out) = KeysOf(a) \o AddedKeys(a, b)
    /\ \A i \in DOMAIN out :
           out[i].kind = "section" =>
               KeysInOrder(
                   IF IndexOf(a, out[i].key) = 0 THEN <<>>
                   ELSE Entry(a, out[i].key).items,
                   IF IndexOf(b, out[i].key) = 0 THEN <<>>
                   ELSE Entry(b, out[i].key).items,
                   out[i].items)

\* C25: for configs a and b without a type conflict merge and meld return,
\* applying them again to a and their result gives the same keys, values
\* and key order, after merge(a, b) every option of b has b's value, after
\* meld(a, b) every option of a has a's value, and in both the keys are
\* a's followed by the ones only b has.
C25_MergeMeldIdempotentWithPrecedence ==
    (cfgOp # "none" /\ NoTypeConflict(cfgA, cfgB)) =>
        /\ cfgOut.err = "none"
        /\ cfgAgain = cfgOut
        /\ KeysInOrder(cfgA, cfgB, cfgOut.cfg)
        /\ cfgOp = "merge" => OptionsOf(cfgB, cfgOut.cfg)
        /\ cfgOp = "meld" => OptionsOf(cfgA, cfgOut.cfg)

\* C25 happens: a was melded with a b that has a section of a's with other
\* options in it and a key a lacks
C25_Witness ==
    /\ cfgOp = "meld"
    /\ NoTypeConflict(cfgA, cfgB)
    /\ \E k \in Keys :
           /\ IndexOf(cfgA, k) # 0 /\ IndexOf(cfgB, k) # 0
           /\ Entry(cfgA, k).kind = "section"
           /\ Entry(cfgA, k).items # <<>>
           /\ Entry(cfgB, k).items # <<>>
           /\ Entry(cfgA, k).items # Entry(cfgB, k).items
    /\ \E k \in Keys : IndexOf(cfgA, k) = 0 /\ IndexOf(cfgB, k) # 0
    /\ cfgOut.cfg # cfgA

\* C27: in merge and in meld, overlaying a section onto a key that holds an
\* option, or an option onto a key that holds a section, raises a
\* type-conflict error.
C27_TypeConflictRaises ==
    (cfgOp # "none" /\ ~NoTypeConflict(cfgA, cfgB)) => cfgOut.err = "TypeError"

\* C26: a config validated against a configspec of registered validators,
\* rendered with the validators' format(), parsed and validated again gives
\* the validated value back; a float or percent option keeps its value.
C26_ConfigspecRoundTrip ==
    rtTrips > 0 => rtCur = rtValue

\* the text of each logged line, in order
RECURSIVE TextOf(_)
TextOf(log) ==
    IF log = <<>> THEN <<>> ELSE <<Head(log).text>> \o TextOf(Tail(log))

\* C29: closing a compression stream, in read or in write mode, waits for
\* the process to exit, logs every line of its stderr and raises an IOError
\* with the command line if the return code is not zero; closing it again
\* does nothing and raises nothing.
C29_CloseWaitsLogsAndRaises ==
    strClosed =>
        /\ strProc = "exited"
        /\ TextOf(strLog) = strErr
        /\ strExit # 0 => strRaised[1] = IOError(Args(strMode))
        /\ \A i \in 2..Len(strRaised) : strRaised[i] = Returned

\* C30: when tar exits with a return code other than zero, archive() logs
\* the lines of tar's stderr and raises ArchiveError; when tar was killed by
\* signal s, for any s in 1..64, the message has the name of the signal.
C30_TarFailureRaisesArchiveError ==
    (tarpc = "done" /\ tarRet # 0) =>
        /\ TextOf(tarLog) = tarErr
        /\ tarRaised.type = "ArchiveError"
        /\ tarRet < 0 => (tarRaised.name # "" /\ tarRaised.num = -tarRet)

\* C31: whenever after-backup is dispatched for a backup that reached the
\* before-backup step, backup.stop_time is set: after a success, after a
\* failure of the strategy and after a failure of a before-backup hook.
C31_StopTimeSetOnEveryOutcome ==
    (pc = "after-backup" /\ "before-backup" \in Range(events)) => stopped

\* C32: the status of a Backup starts as initialized and only moves
\* forward: once it is completed or failed, no later step of the lifecycle
\* (hook events, hook failures, cleanup, the commit) changes it.
C32_StatusMovesForward ==
    [][/\ \A n \in DOMAIN catalog :
            /\ n \in DOMAIN catalog'
            /\ catalog[n] \in {"completed", "failed"} => catalog'[n] = catalog[n]
       /\ \A n \in DOMAIN catalog' \ DOMAIN catalog : catalog'[n] = "initialized"]_vars

\* a completed backup left the lifecycle with the failure of a later step
C32_Witness ==
    /\ pc = "done"
    /\ catalog[cur] = "completed"
    /\ raised # NoExc
    /\ raised.ev \in {"completed-backup", "after-backup"}

\* the value the validated config has under key k
ValueOf(c, k) == c[IndexOf(c, k)].val

\* C33: after validation the alias key is gone; when the config supplied a
\* value under the alias only, the canonical key holds the alias's validated
\* value, also when the canonical key has a default and is listed first;
\* when both were supplied, the one positioned later in the config wins.
C33_AliasRenamedToCanonical ==
    alpc = "done" =>
        /\ IndexOf(alCfg, Alias) = 0
        /\ (IndexOf(alSupplied, Alias) # 0 /\ IndexOf(alSupplied, Canonical) = 0) =>
              /\ IndexOf(alCfg, Canonical) # 0
              /\ ValueOf(alCfg, Canonical) = Converted(ValueOf(alSupplied, Alias))
        /\ (IndexOf(alSupplied, Alias) # 0 /\ IndexOf(alSupplied, Canonical) # 0) =>
              /\ IndexOf(alCfg, Canonical) # 0
              /\ ValueOf(alCfg, Canonical) =
                   Converted(ValueOf(alSupplied,
                                     IF IsAfter(alSupplied, Alias, Canonical)
                                     THEN Alias ELSE Canonical))

\* position of a call in the log of the last loop, 0 when it was not made
LogIndex(op, node) ==
    IF \E i \in DOMAIN pgLog : pgLog[i] = Call(op, node)
    THEN CHOOSE i \in DOMAIN pgLog : pgLog[i] = Call(op, node)
    ELSE 0

\* the candidates the last loop has gone past
Passed == {pgCand[i] : i \in 1..(pgIdx - 1)}

\* C34: in a purge_set that is not a dry run, every node that is neither
\* kept nor excluded is released and then purged; a release that fails is
\* logged and neither that node nor a later one is kept from being purged;
\* excluded nodes are never released or purged.
C34_ReleaseThenPurge ==
    (pgpc # "idle" /\ ~pgArgs.dry) =>
        /\ \A n \in Passed \ (pgArgs.exclude \cup Range(pgKept)) :
              /\ LogIndex("release", n) # 0
              /\ LogIndex("purge", n) > LogIndex("release", n)
              /\ n \notin pgNodes
              /\ n \in pgArgs.failing =>
                    /\ LogIndex("release-failed", n) > LogIndex("release", n)
                    /\ LogIndex("release-failed", n) < LogIndex("purge", n)
        /\ \A n \in pgArgs.exclude :
              /\ n \in pgNodes
              /\ LogIndex("release", n) = 0
              /\ LogIndex("purge", n) = 0
        /\ pgpc = "done" =>
              /\ Passed = Range(pgCand)
              /\ PurgeNodes \ pgNodes =
                   Purged(pgCand, pgKept, pgArgs.dry, pgArgs.exclude)

\* a release failed, and that node and a later one were purged all the same
C34_Witness ==
    /\ pgpc = "done"
    /\ ~pgArgs.dry
    /\ pgArgs.exclude # {}
    /\ \E n, m \in PurgeNodes :
         /\ n \in pgArgs.failing
         /\ LogIndex("purge", n) # 0
         /\ LogIndex("purge", m) > LogIndex("purge", n)

\* C35: replace_symlink is atomic: from the call on, link_name points at
\* its old target or at the new one and, if it existed, never disappears;
\* once the call has returned or raised, no temporary link is left.
C35_ReplaceSymlinkAtomic ==
    /\ [](lnCount > 0 =>
            /\ lnLinks[lnCall.link] \in {lnCall.old, lnCall.source}
            /\ lnCall.old # 0 => lnLinks[lnCall.link] # 0
            /\ lnpc = "idle" => lnLinks[lnCall.link] = lnCall.source)
    /\ [](lnpc \in {"idle", "raised"} => lnTmp = 0)
    /\ [][\A l \in LinkNames : lnLinks[l] # 0 => lnLinks'[l] # 0]_vars

\* rename failed on a link that exists: the link is as it was
C35_Witness ==
    /\ lnpc = "raised"
    /\ lnCall.old # 0
    /\ lnCall.source # lnCall.old
    /\ lnLinks[lnCall.link] = lnCall.old
    /\ lnLinks["newest"] # 0 /\ lnLinks["oldest"] # 0

\* C36: add_node succeeds when the backupset directory, its .holland
\* directory or the node directory it is to make exist already (two calls
\* within the same second give the same default name), and fails with a
\* SpoolError on any other error of creation.
C36_AddNodeToleratesExisting ==
    anLast.called =>
        /\ ~anLast.refused =>
              /\ anLast.err = "none"
              /\ Dir(anLast.node, TRUE) \in anDirs
        /\ anLast.refused => anLast.err = "SpoolError"

\* the nodes of ns whose backup completed
CompletedIn(ns) == {n \in ns : catalog[n] = "completed"}

\* C37: a backup run never destroys the last good backup: when the
\* backupset had a completed node before controller.backup began and
\* retention-count is at least 1, it has one when controller.backup returns
\* or raises, under either purge-policy, whether the new backup succeeded
\* or failed.
C37_LastGoodBackupSurvives ==
    (pc = "done" /\ run.retention >= 1 /\ CompletedIn(before.nodes) # {}) =>
        CompletedIn(nodes) # {}

\* the Backup rows attached to the current job, in the order they were made
JobRows ==
    [i \in DOMAIN attempted |-> attempted[i].rows]

\* C38: when a job scope has exited, every Backup row attached to that job
\* has status completed or failed and a backup_directory; no row is left
\* initialized, also not for a backupset whose lock could not be acquired or
\* whose plugin.setup() or initialize hook raised.
C38_JobRowsFinished ==
    (jpc = "left" /\ stopTime) =>
        \A i \in DOMAIN attempted : \A j \in DOMAIN attempted[i].rows :
            /\ attempted[i].rows[j].status \in {"completed", "failed"}
            /\ attempted[i].rows[j].directory

\* C39: a non-dry-run purge_set never deletes the node a backup running in
\* another process, which holds the backupset's spool lock, is still writing:
\* purge_set changes the backupset's nodes and symlinks only while its caller
\* holds the lock.
C39_PurgeOnlyUnderLock ==
    (otherPurge.done /\ ~otherPurge.dry /\ otherPurge.held) =>
        /\ otherPurge.writing \notin otherPurge.purged
        /\ otherPurge.purged = {}
        /\ otherPurge.oldest = otherPurge.oldestBefore
        /\ otherPurge.newest = otherPurge.newestBefore

\* C40: when a dry-run backup fails and the failed-backup handlers have
\* completed (remove-failed-backup removed the node directory), the
\* after-backup purge of the removed node does not raise: every after-backup
\* hook runs, plugin.cleanup() is called, and the exception that reaches the
\* caller is the original failure.
C40_DryRunFailureCleansUp ==
    (pc = "done" /\ run.dryrun /\ origExc # NoExc /\ exc = origExc) =>
        /\ events[Len(events)] = "after-backup"
        /\ Len(called[Len(called)]) = Len(SortedHooks(registry))
        /\ cleaned
        /\ raised = origExc

=============================================================================
